---- MODULE Spec2Model ----
(***************************************************************************)
(* A model of anvio.keggmapping.Mapper: the colour-priority tables of the  *)
(* multi-database and pangenome operations, the three draw operations on a *)
(* pathway map, and the orchestration of a mapping run over the output     *)
(* directory.                                                              *)
(*                                                                         *)
(* Conventions.                                                            *)
(*  - A source (contigs database project name, genome name) is an integer; *)
(*    the integer is the alphabetical rank of the name (1 = 'A', 2 = 'B',  *)
(*    ...), so Python's sorted() on names is the numerical order.          *)
(*  - A float in [0, 1] is an exact fraction <<num, den>> with den > 0.    *)
(*  - A Python dict is a sequence of [k, v] records in insertion order.    *)
(*  - A colour is a record [kind, v]: kind "code" is a literal hex code    *)
(*    (v its 24-bit value), kind "cmap" a hex code sampled from a          *)
(*    colormap (v its position in the lookup table, see LutAt), kind       *)
(*    "nonsense" the string '0'. Two colours sampled at different lookup   *)
(*    table positions are taken to have different hex codes.               *)
(***************************************************************************)
EXTENDS Integers, Sequences, FiniteSets, TLC

\* ------------------------------------------------------------------ bounds
\* The largest number of sources (contigs databases, genomes) of a colour table.
MaxSources == 4
\* The largest number of sources of the membership a draw operation is given.
MaxDrawSources == 3
\* The largest number of colours of a caller-supplied colormap.
MaxPalette == 8

\* --------------------------------------------------------------- constants
\* The number of colours of matplotlib's 'plasma_r'.
PlasmaN == 256
\* The number of colours of matplotlib's 'tab10'.
Tab10N == 10
\* The size of the lookup table of LinearSegmentedColormap.from_list (its default N).
LinearSegmentedN == 256

\* ----------------------------------------------------------------- colours
Code(v) == [kind |-> "code", v |-> v]
WHITE == Code(16777215)
BLACK == Code(0)
GREEN == Code(2924588)
NONSENSE == [kind |-> "nonsense", v |-> 0]

\* mcolors.rgb2hex of a colour of a colormap's lookup table.
Rgb2Hex(rgba) == [kind |-> "cmap", v |-> rgba]

\* --------------------------------------------------------------- fractions
Frac(n, d) == <<n, d>>
FracEq(a, b) == a[1] * b[2] = b[1] * a[2]
FracLe(a, b) == a[1] * b[2] <= b[1] * a[2]
FracLt(a, b) == a[1] * b[2] < b[1] * a[2]
\* a - 1
FracComplementNegated(a) == <<a[1] - a[2], a[2]>>
\* 1 - a
FracComplement(a) == <<a[2] - a[1], a[2]>>
\* int(a * n) for a fraction a >= 0
FloorTimes(a, n) == (a[1] * n) \div a[2]
\* math.ceil(a * n)
CeilTimes(a, n) == (a[1] * n + a[2] - 1) \div a[2]

\* np.linspace(0, 1, n)
Linspace(n) == IF n = 1 THEN << Frac(0, 1) >> ELSE [i \in 1..n |-> Frac(i - 1, n - 1)]

\* -------------------------------------------------------------------- dicts
EmptyDict == << >>
DictHas(d, key) == \E i \in 1..Len(d) : d[i].k = key
DictGet(d, key) == d[CHOOSE i \in 1..Len(d) : d[i].k = key].v
\* d[key] = value: a new key is appended, an old key keeps its place.
DictSet(d, key, value) ==
    IF DictHas(d, key)
    THEN [i \in 1..Len(d) |-> IF d[i].k = key THEN [k |-> key, v |-> value] ELSE d[i]]
    ELSE Append(d, [k |-> key, v |-> value])
\* list(d)
DictKeys(d) == [i \in 1..Len(d) |-> d[i].k]

\* ---------------------------------------------------------------- colormaps
\* A colormap is [N, lo, L, trimmed]: N the size of its lookup table; an untrimmed
\* colormap holds its own N colours, a trimmed one interpolates the L colours
\* lo .. lo+L-1 of the colormap it was cut from.
NoCmap == [N |-> 0, lo |-> 0, L |-> 0, trimmed |-> FALSE]
ListedCmap(n) == [N |-> n, lo |-> 0, L |-> n, trimmed |-> FALSE]

\* The colour at 0-based index i of the lookup table, as a position on the scale on
\* which colour k of the untrimmed colormap is k * (LinearSegmentedN - 1).
LutAt(cmap, i) ==
    IF cmap.trimmed
    THEN (LinearSegmentedN - 1) * cmap.lo + i * (cmap.L - 1)
    ELSE (LinearSegmentedN - 1) * i

\* cmap(x) for a float x in [0, 1]: index int(x * N), and N itself is clipped to N - 1.
CmapFloat(cmap, x) ==
    LET i == FloorTimes(x, cmap.N)
    IN  LutAt(cmap, IF i >= cmap.N THEN cmap.N - 1 ELSE i)

\* cmap(i) for an int i >= 0: an index past the table gives the 'over' colour, which
\* is the last colour of the table.
CmapInt(cmap, i) == LutAt(cmap, IF i >= cmap.N THEN cmap.N - 1 ELSE i)

\* The colours cmap(range(int(lo * N), ceil(hi * N))) kept by colormap_limits.
TrimLo(cmap, limits) == FloorTimes(limits.lo, cmap.N)
TrimHi(cmap, limits) == CeilTimes(limits.hi, cmap.N)
TrimCount(cmap, limits) ==
    IF TrimHi(cmap, limits) > TrimLo(cmap, limits)
    THEN TrimHi(cmap, limits) - TrimLo(cmap, limits) ELSE 0

\* LinearSegmentedColormap.from_list of the kept colours.
TrimCmap(cmap, limits) ==
    [N |-> LinearSegmentedN, lo |-> TrimLo(cmap, limits),
     L |-> TrimCount(cmap, limits), trimmed |-> TRUE]

\* The number of distinct discrete colours a colormap offers.
DiscreteColors(cmap) == cmap.L


\* ------------------------------------------------------ colormap arguments
\* The 'colormap' argument: True, False or None, the name of a colormap (str) or a
\* Colormap object, the last two with n colours.
ColormapArg(kind, n) == [kind |-> kind, n |-> n]
\* The 'colormap_limits' argument: None, or a pair of fractions.
NoLimits == [given |-> FALSE, lo |-> Frac(0, 1), hi |-> Frac(1, 1)]
Limits(lo, hi) == [given |-> TRUE, lo |-> lo, hi |-> hi]
\* colormap_limits != (0.0, 1.0)
NotFullRange(limits) == ~(FracEq(limits.lo, Frac(0, 1)) /\ FracEq(limits.hi, Frac(1, 1)))
\* 0.0 <= colormap_limits[0] <= colormap_limits[1] <= 1.0
LimitsInOrder(limits) ==
    /\ FracLe(Frac(0, 1), limits.lo)
    /\ FracLe(limits.lo, limits.hi)
    /\ FracLe(limits.hi, Frac(1, 1))

\* A scheme that is inferred from a threshold of 5 databases.
ContigsDbsSchemeOfFive(colormap, colormap_scheme, n) ==
    IF colormap.kind = "False" THEN "static"
    ELSE IF colormap_scheme = "None"
         THEN (IF n < 5 THEN "by_database" ELSE "by_count")
         ELSE colormap_scheme

\* map_contigs_databases_kos: the colormap scheme.
ContigsDbsScheme(colormap, colormap_scheme, n) ==
    IF colormap.kind = "False" THEN "static"
    ELSE IF colormap_scheme = "None"
         THEN (IF n < 4 THEN "by_database" ELSE "by_count")
         ELSE colormap_scheme

\* map_contigs_databases_kos: the colormap before trimming.
ContigsDbsCmap(colormap, scheme) ==
    IF colormap.kind = "True"
    THEN (IF scheme = "by_count" THEN ListedCmap(PlasmaN) ELSE ListedCmap(Tab10N))
    ELSE IF colormap.kind = "False" THEN NoCmap
    ELSE ListedCmap(colormap.n)

\* map_contigs_databases_kos: the limits after the defaults are filled in.
ContigsDbsLimits(colormap, scheme, limits) ==
    IF colormap.kind = "True" /\ ~limits.given
    THEN (IF scheme = "by_count"
          THEN Limits(Frac(1, 10), Frac(9, 10)) ELSE Limits(Frac(0, 1), Frac(1, 1)))
    ELSE limits

\* map_pan_database_kos: the colormap before trimming.
PanCmap(colormap) == IF colormap.kind = "None" THEN NoCmap ELSE ListedCmap(colormap.n)

\* map_pan_database_kos: the limits after the default is filled in.
PanLimits(colormap, limits) ==
    IF colormap.kind = "str" /\ ~limits.given
    THEN Limits(Frac(1, 10), Frac(9, 10)) ELSE limits

\* "Trim the colormap": [status, cmap].
Trim(cmap, limits) ==
    IF cmap # NoCmap /\ limits.given /\ NotFullRange(limits)
    THEN IF ~LimitsInOrder(limits) THEN [status |-> "AssertionError", cmap |-> cmap]
         ELSE IF TrimCount(cmap, limits) < 2 THEN [status |-> "ValueError", cmap |-> cmap]
         ELSE [status |-> "ok", cmap |-> TrimCmap(cmap, limits)]
    ELSE [status |-> "ok", cmap |-> cmap]

\* ------------------------------------------------------------ colour tables
\* The increasing index tuples of length r over start..n, in lexicographic order.
RECURSIVE CombosFrom(_, _, _)
CombosFrom(start, n, r) ==
    IF r = 0 THEN << << >> >>
    ELSE IF start > n THEN << >>
    ELSE LET with == CombosFrom(start + 1, n, r - 1)
         IN  [i \in 1..Len(with) |-> <<start>> \o with[i]] \o CombosFrom(start + 1, n, r)

\* itertools.combinations(names, r), as a list of tuples.
Combinations(names, r) ==
    LET idx == CombosFrom(1, Len(names), r)
    IN  [i \in 1..Len(idx) |-> [j \in 1..r |-> names[idx[i][j]]]]

\* db_combos after the loop over db_count in range(1, count + 1).
RECURSIVE DbCombos(_, _)
DbCombos(names, count) ==
    IF count = 0 THEN << >> ELSE DbCombos(names, count - 1) \o Combinations(names, count)

\* The by_count loop over np.linspace(0, 1, n), from sample point i on.
RECURSIVE CountPriority(_, _, _, _, _)
CountPriority(cmap, points, i, reverse_overlay, acc) ==
    IF i > Len(points) THEN acc
    ELSE CountPriority(cmap, points, i + 1, reverse_overlay,
            DictSet(acc, Rgb2Hex(CmapFloat(cmap, points[i])),
                    IF reverse_overlay THEN FracComplement(points[i]) ELSE points[i]))

\* The by_database loop over range(len(db_combos)), from sample point sp on.
RECURSIVE CombinationPriority(_, _, _, _, _)
CombinationPriority(cmap, count, sp, reverse_overlay, acc) ==
    IF sp >= count THEN acc
    ELSE CombinationPriority(cmap, count, sp + 1, reverse_overlay,
            DictSet(acc, Rgb2Hex(CmapInt(cmap, sp)),
                    IF reverse_overlay THEN Frac(cmap.N - sp, cmap.N)
                    ELSE Frac(sp + 1, cmap.N)))

\* The colour table of a run: [status, scheme, cmap, color_priority, has_combos,
\* db_combos]; has_combos is FALSE where the code has db_combos = None.
ColorTable(status, scheme, cmap, color_priority, has_combos, db_combos) ==
    [status |-> status, scheme |-> scheme, cmap |-> cmap,
     color_priority |-> color_priority, has_combos |-> has_combos,
     db_combos |-> db_combos]
NoTable(status, scheme, cmap) == ColorTable(status, scheme, cmap, EmptyDict, FALSE, << >>)

\* color_priority and db_combos of map_contigs_databases_kos.
ContigsDbsColorPriority(scheme, cmap, project_names, reverse_overlay) ==
    IF scheme = "by_count"
    THEN ColorTable("ok", scheme, cmap,
            CountPriority(cmap, Linspace(Len(project_names)), 1, reverse_overlay, EmptyDict),
            FALSE, << >>)
    ELSE LET db_combos == DbCombos(project_names, Len(project_names))
         IN  IF Len(db_combos) > cmap.N THEN NoTable("AssertionError", scheme, cmap)
             ELSE ColorTable("ok", scheme, cmap,
                     CombinationPriority(cmap, Len(db_combos), 0, reverse_overlay, EmptyDict),
                     TRUE, db_combos)

\* map_contigs_databases_kos from its arguments to its colour table.
ContigsDbsColors(args) ==
    LET scheme == ContigsDbsScheme(args.colormap, args.colormap_scheme, Len(args.names))
        limits == ContigsDbsLimits(args.colormap, scheme, args.colormap_limits)
        trim   == Trim(ContigsDbsCmap(args.colormap, scheme), limits)
    IN  IF trim.status # "ok" THEN NoTable(trim.status, scheme, trim.cmap)
        ELSE IF scheme = "static" THEN NoTable("ok", scheme, trim.cmap)
        ELSE ContigsDbsColorPriority(scheme, trim.cmap, args.names, args.reverse_overlay)

\* map_pan_database_kos from its arguments to its colour table.
PanColors(args) ==
    IF args.colormap.kind = "None" THEN NoTable("ok", "static", NoCmap)
    ELSE LET trim == Trim(PanCmap(args.colormap), PanLimits(args.colormap, args.colormap_limits))
         IN  IF trim.status # "ok" THEN NoTable(trim.status, "by_count", trim.cmap)
             ELSE ColorTable("ok", "by_count", trim.cmap,
                     CountPriority(trim.cmap, Linspace(Len(args.names)), 1,
                                   args.reverse_overlay, EmptyDict),
                     FALSE, << >>)


\* ------------------------------------------------- colour of a map entry
\* sorted(s) of a set of sources, as a tuple.
RECURSIVE Sorted(_)
Sorted(s) ==
    IF s = {} THEN << >>
    ELSE LET least == CHOOSE x \in s : \A y \in s : x <= y
         IN  <<least>> \o Sorted(s \ {least})

Range(seq) == {seq[i] : i \in 1..Len(seq)}

\* source_combos.index(combo) + 1 of a combo that is in the list.
IndexOf(source_combos, combo) ==
    CHOOSE i \in 1..Len(source_combos) :
        /\ source_combos[i] = combo
        /\ \A j \in 1..(i - 1) : source_combos[j] # combo

\* combo_lookup[key], the last combo of the list that sorts to the key.
ComboLookup(source_combos, key) ==
    source_combos[CHOOSE i \in 1..Len(source_combos) :
        /\ Sorted(Range(source_combos[i])) = key
        /\ \A j \in (i + 1)..Len(source_combos) : Sorted(Range(source_combos[j])) # key]

\* A lookup that indexes the colours by the number of sources in both modes.
EntryColorByCountOnly(color_priority, has_combos, source_combos, source_names) ==
    LET color_hexcodes == DictKeys(color_priority)
    IN  IF Cardinality(source_names) \in 1..Len(color_hexcodes)
        THEN [status |-> "ok", color |-> color_hexcodes[Cardinality(source_names)]]
        ELSE [status |-> "IndexError", color |-> NONSENSE]

\* _draw_map_kos_membership: the colour of an entry whose KOs' sources are
\* source_names (a non-empty set): [status, color].
EntryColor(color_priority, has_combos, source_combos, source_names) ==
    LET color_hexcodes == DictKeys(color_priority)
        key == Sorted(source_names)
        at(i) == IF i <= Len(color_hexcodes)
                 THEN [status |-> "ok", color |-> color_hexcodes[i]]
                 ELSE [status |-> "IndexError", color |-> NONSENSE]
    IN  IF ~has_combos THEN at(Cardinality(source_names))
        ELSE IF \A i \in 1..Len(source_combos) : Sorted(Range(source_combos[i])) # key
             THEN [status |-> "KeyError", color |-> NONSENSE]
             ELSE at(IndexOf(source_combos, ComboLookup(source_combos, key)))

\* ---------------------------------------------------------------- pathways
\* The pathway maps set up in the KEGG data directory of the model.
GlobalMap == "01100"
OverviewMap == "01200"
StandardMap == "00010"
available_pathway_numbers == <<StandardMap, GlobalMap, OverviewMap>>

\* _get_pathway: which kind of map a pathway number names.
is_global_map(pathway_number) == pathway_number = GlobalMap
is_overview_map(pathway_number) == pathway_number = OverviewMap

Graphics(fgcolor, bgcolor, width) == [fgcolor |-> fgcolor, bgcolor |-> bgcolor, width |-> width]
Entry(type, name, graphics) == [type |-> type, name |-> name, graphics |-> graphics]

\* _get_pathway: the entries of the KGML file of a map, in file order. An entry's
\* name is the tuple of the KEGG IDs it represents; widths are in units of 1.0.
Kgml(pathway_number) ==
    IF pathway_number = GlobalMap
    THEN << Entry("ortholog", <<"K2", "K4">>,
                  << Graphics(Code(10040012), WHITE, 1), Graphics(Code(10040012), WHITE, 1) >>),
            Entry("ortholog", <<"K1">>, << Graphics(Code(15753874), WHITE, 1) >>),
            Entry("compound", <<"C1">>, << Graphics(BLACK, WHITE, 1) >>),
            Entry("ortholog", <<"K3">>, << Graphics(Code(10040012), WHITE, 1) >>) >>
    ELSE IF pathway_number = OverviewMap
    THEN << Entry("ortholog", <<"K3">>, << Graphics(BLACK, WHITE, 1) >>),
            Entry("compound", <<"C1">>, << Graphics(BLACK, WHITE, 1) >>),
            Entry("ortholog", <<"K4">>, << Graphics(BLACK, WHITE, 1) >>) >>
    ELSE << Entry("ortholog", <<"K1">>, << Graphics(BLACK, Code(12582847), 1) >>),
            Entry("ortholog", <<"K1", "K2">>, << Graphics(BLACK, Code(12582847), 1) >>),
            Entry("compound", <<"C1">>, << Graphics(BLACK, WHITE, 1) >>),
            Entry("ortholog", <<"K3">>, << Graphics(BLACK, Code(12582847), 1) >>),
            Entry("ortholog", <<"K4">>, << Graphics(BLACK, Code(12582847), 1) >>) >>

\* pathway.get_entries(kegg_ids=...): the indices of the entries that name one of
\* the KEGG IDs, in file order.
SelectEntries(pathway, kegg_ids) ==
    LET hit(i) == \E j \in 1..Len(pathway[i].name) : pathway[i].name[j] \in kegg_ids
        RECURSIVE from(_)
        from(i) == IF i > Len(pathway) THEN << >>
                   ELSE (IF hit(i) THEN <<i>> ELSE << >>) \o from(i + 1)
    IN  from(1)

\* pathway.get_entries(entry_type='ortholog'): the indices of the ortholog entries.
OrthologEntries(pathway) == {i \in 1..Len(pathway) : pathway[i].type = "ortholog"}

\* The arguments of pathway.set_color_priority.
SetColorPriority(color_priority, recolor_unprioritized_entries, color_associated_compounds, colormap) ==
    [called |-> TRUE, color_priority |-> color_priority,
     recolor_unprioritized_entries |-> recolor_unprioritized_entries,
     color_associated_compounds |-> color_associated_compounds, colormap |-> colormap]
NotPrioritized ==
    [called |-> FALSE, color_priority |-> EmptyDict, recolor_unprioritized_entries |-> "None",
     color_associated_compounds |-> "None", colormap |-> NoCmap]

\* What a draw operation did: its outcome ("ok" or the error raised), its return
\* value, the pathway object as it left it, the entries it selected, the call of
\* set_color_priority, and whether it removed and wrote out_path.
DrawResult(status, returned, pathway, selected, priority, removed, wrote) ==
    [status |-> status, returned |-> returned, pathway |-> pathway, selected |-> selected,
     priority |-> priority, removed |-> removed, wrote |-> wrote]

\* "Draw the map": remove an existing file when overwriting, else require that
\* out_path does not exist, then draw.
DrawMap(pathway, selected, priority, exists, overwrite_output) ==
    IF exists /\ overwrite_output
    THEN DrawResult("ok", TRUE, pathway, selected, priority, TRUE, TRUE)
    ELSE IF exists
         THEN DrawResult("FilesNPathsError", FALSE, pathway, selected, priority, FALSE, FALSE)
         ELSE DrawResult("ok", TRUE, pathway, selected, priority, FALSE, TRUE)

\* The map was not drawn: nothing but the load of the pathway happened.
NotDrawn(pathway) == DrawResult("ok", FALSE, pathway, << >>, NotPrioritized, FALSE, FALSE)

\* A colouring that leaves the line width of overview maps as loaded.
SingleColorGraphicsBaseWidth(pathway_number, graphics, color_hexcode) ==
    IF is_global_map(pathway_number) \/ is_overview_map(pathway_number)
    THEN [graphics EXCEPT !.fgcolor = color_hexcode, !.bgcolor = WHITE]
    ELSE [graphics EXCEPT !.fgcolor = BLACK, !.bgcolor = color_hexcode]

\* _draw_map_kos_single_color: one Graphics element of a selected entry.
SingleColorGraphics(pathway_number, graphics, color_hexcode) ==
    IF is_global_map(pathway_number)
    THEN [graphics EXCEPT !.fgcolor = color_hexcode, !.bgcolor = WHITE]
    ELSE IF is_overview_map(pathway_number)
         THEN [graphics EXCEPT !.fgcolor = color_hexcode, !.bgcolor = WHITE, !.width = 5]
         ELSE [graphics EXCEPT !.fgcolor = BLACK, !.bgcolor = color_hexcode]

\* _draw_map_kos_single_color: the loop over the ortholog entries.
SingleColorEntries(pathway_number, pathway, selected, color_hexcode) ==
    LET ofselected(g) == SingleColorGraphics(pathway_number, g, color_hexcode)
        other(g) == [g EXCEPT !.fgcolor = NONSENSE]
    IN  [i \in 1..Len(pathway) |->
            IF i \notin OrthologEntries(pathway) THEN pathway[i]
            ELSE [pathway[i] EXCEPT !.graphics =
                     [j \in 1..Len(pathway[i].graphics) |->
                         IF i \in Range(selected) THEN ofselected(pathway[i].graphics[j])
                         ELSE other(pathway[i].graphics[j])]]]

\* A call of set_color_priority keyed by (colour, white) on every map.
SingleColorPriorityLineKey(pathway_number, color_hexcode) ==
    IF is_global_map(pathway_number)
    THEN SetColorPriority(<< [k |-> <<color_hexcode, WHITE>>, v |-> Frac(1, 1)] >>,
                          "g", "high", NoCmap)
    ELSE IF is_overview_map(pathway_number)
         THEN SetColorPriority(<< [k |-> <<color_hexcode, WHITE>>, v |-> Frac(1, 1)] >>,
                               "w", "high", NoCmap)
         ELSE SetColorPriority(<< [k |-> <<color_hexcode, WHITE>>, v |-> Frac(1, 1)] >>,
                               "w", "None", NoCmap)

\* A call of set_color_priority that asks for a white background on every map.
SingleColorPriorityWhite(pathway_number, color_hexcode) ==
    IF is_global_map(pathway_number) \/ is_overview_map(pathway_number)
    THEN SetColorPriority(<< [k |-> <<color_hexcode, WHITE>>, v |-> Frac(1, 1)] >>,
                          "w", "high", NoCmap)
    ELSE SetColorPriority(<< [k |-> <<BLACK, color_hexcode>>, v |-> Frac(1, 1)] >>,
                          "w", "None", NoCmap)

\* _draw_map_kos_single_color: the call of set_color_priority.
SingleColorPriority(pathway_number, color_hexcode) ==
    IF is_global_map(pathway_number)
    THEN SetColorPriority(<< [k |-> <<color_hexcode, WHITE>>, v |-> Frac(1, 1)] >>,
                          "g", "high", NoCmap)
    ELSE IF is_overview_map(pathway_number)
         THEN SetColorPriority(<< [k |-> <<color_hexcode, WHITE>>, v |-> Frac(1, 1)] >>,
                               "w", "high", NoCmap)
         ELSE SetColorPriority(<< [k |-> <<BLACK, color_hexcode>>, v |-> Frac(1, 1)] >>,
                               "w", "None", NoCmap)

\* A single-colour draw without the return for maps that lack the KOs.
DrawMapKosSingleColorAlways(pathway_number, ko_ids, color_hexcode, exists, overwrite_output, draw_map_lacking_kos) ==
    LET pathway == Kgml(pathway_number)
        select_entries == SelectEntries(pathway, ko_ids)
    IN  DrawMap(SingleColorEntries(pathway_number, pathway, select_entries, color_hexcode),
                select_entries, SingleColorPriority(pathway_number, color_hexcode),
                exists, overwrite_output)

\* _draw_map_kos_single_color
DrawMapKosSingleColor(pathway_number, ko_ids, color_hexcode, exists, overwrite_output, draw_map_lacking_kos) ==
    LET pathway == Kgml(pathway_number)
        select_entries == SelectEntries(pathway, ko_ids)
    IN  IF select_entries = << >> /\ ~draw_map_lacking_kos THEN NotDrawn(pathway)
        ELSE DrawMap(SingleColorEntries(pathway_number, pathway, select_entries, color_hexcode),
                     select_entries, SingleColorPriority(pathway_number, color_hexcode),
                     exists, overwrite_output)

\* _draw_map_kos_original_color: one Graphics element of a selected entry.
OriginalColorGraphics(pathway_number, graphics) ==
    IF is_global_map(pathway_number)
    THEN [graphics EXCEPT !.bgcolor = WHITE]
    ELSE IF is_overview_map(pathway_number)
         THEN [graphics EXCEPT !.bgcolor = WHITE, !.width = 5]
         ELSE [graphics EXCEPT !.fgcolor = BLACK]

\* _draw_map_kos_original_color: the loop over the ortholog entries.
OriginalColorEntries(pathway_number, pathway, selected) ==
    LET ofselected(g) == OriginalColorGraphics(pathway_number, g)
        other(g) == [g EXCEPT !.fgcolor = NONSENSE]
    IN  [i \in 1..Len(pathway) |->
            IF i \notin OrthologEntries(pathway) THEN pathway[i]
            ELSE [pathway[i] EXCEPT !.graphics =
                     [j \in 1..Len(pathway[i].graphics) |->
                         IF i \in Range(selected) THEN ofselected(pathway[i].graphics[j])
                         ELSE other(pathway[i].graphics[j])]]]

\* _draw_map_kos_original_color: prioritized_colors, the (fgcolor, bgcolor) of the
\* Graphics of the selected ortholog entries in file order, with repeats.
RECURSIVE PrioritizedColors(_, _, _)
PrioritizedColors(pathway, selected, i) ==
    IF i > Len(pathway) THEN << >>
    ELSE (IF i \in OrthologEntries(pathway) /\ i \in Range(selected)
          THEN [j \in 1..Len(pathway[i].graphics) |->
                    <<pathway[i].graphics[j].fgcolor, pathway[i].graphics[j].bgcolor>>]
          ELSE << >>) \o PrioritizedColors(pathway, selected, i + 1)

\* [x for x in seq if not (x in seen or seen.add(x))]: the first occurrences.
RECURSIVE Unique(_)
Unique(seq) ==
    IF seq = << >> THEN << >>
    ELSE LET front == Unique(SubSeq(seq, 1, Len(seq) - 1))
             last == seq[Len(seq)]
         IN  IF last \in Range(front) THEN front ELSE Append(front, last)

\* Priorities taken from np.linspace(0, 1, n), which start at 0.
OriginalColorPriorityFromZero(prioritized_colors) ==
    LET colors == Unique(prioritized_colors)
    IN  [i \in 1..Len(colors) |-> [k |-> colors[i], v |-> Linspace(Len(colors))[i]]]

\* _draw_map_kos_original_color: the colour priorities, np.linspace(0, 1, n + 1)[1:]
\* zipped with the distinct colour pairs.
OriginalColorPriority(prioritized_colors) ==
    LET colors == Unique(prioritized_colors)
    IN  [i \in 1..Len(colors) |-> [k |-> colors[i], v |-> Linspace(Len(colors) + 1)[i + 1]]]

\* _draw_map_kos_original_color
DrawMapKosOriginalColor(pathway_number, ko_ids, exists, overwrite_output, draw_map_lacking_kos) ==
    LET pathway == Kgml(pathway_number)
        select_entries == SelectEntries(pathway, ko_ids)
        colored == OriginalColorEntries(pathway_number, pathway, select_entries)
        color_priority == OriginalColorPriority(PrioritizedColors(colored, select_entries, 1))
    IN  IF select_entries = << >> /\ ~draw_map_lacking_kos THEN NotDrawn(pathway)
        ELSE DrawMap(colored, select_entries,
                     IF is_global_map(pathway_number)
                     THEN SetColorPriority(color_priority, "g", "high", NoCmap)
                     ELSE IF is_overview_map(pathway_number)
                          THEN SetColorPriority(color_priority, "w", "high", NoCmap)
                          ELSE SetColorPriority(color_priority, "w", "None", NoCmap),
                     exists, overwrite_output)

\* _draw_map_kos_membership: source_names of an entry, the lists of the entry's
\* KEGG IDs that are keys of ko_membership, one after the other.
RECURSIVE SourceNames(_, _, _)
SourceNames(name, ko_membership, j) ==
    IF j > Len(name) THEN << >>
    ELSE (IF name[j] \in DOMAIN ko_membership THEN ko_membership[name[j]] ELSE << >>)
         \o SourceNames(name, ko_membership, j + 1)

\* _draw_map_kos_membership: one Graphics element of a selected entry.
MembershipGraphics(pathway_number, graphics, color_hexcode) ==
    IF is_global_map(pathway_number)
    THEN [graphics EXCEPT !.fgcolor = color_hexcode, !.bgcolor = WHITE]
    ELSE IF is_overview_map(pathway_number)
         THEN [graphics EXCEPT !.fgcolor = color_hexcode, !.bgcolor = WHITE, !.width = 5]
         ELSE [graphics EXCEPT !.fgcolor = BLACK, !.bgcolor = color_hexcode]

\* The loop without its assertion: an entry without sources takes the colour at
\* index -1 in count mode (the last of the table) and fails the lookup of the
\* empty combination in combination mode.
RECURSIVE MembershipEntriesUnasserted(_, _, _, _, _, _, _, _)
MembershipEntriesUnasserted(pathway_number, pathway, entries, i, ko_membership, color_priority, has_combos, source_combos) ==
    IF i > Len(entries) THEN [status |-> "ok", pathway |-> pathway]
    ELSE LET entry == pathway[entries[i]]
             source_names == SourceNames(entry.name, ko_membership, 1)
             found == IF Len(source_names) = 0 /\ ~has_combos
                      THEN IF Len(color_priority) = 0
                           THEN [status |-> "IndexError", color |-> NONSENSE]
                           ELSE [status |-> "ok",
                                 color |-> color_priority[Len(color_priority)].k]
                      ELSE EntryColor(color_priority, has_combos, source_combos,
                                      Range(source_names))
             ofselected(g) == MembershipGraphics(pathway_number, g, found.color)
         IN  IF found.status # "ok" THEN [status |-> found.status, pathway |-> pathway]
             ELSE MembershipEntriesUnasserted(pathway_number,
                      [pathway EXCEPT ![entries[i]].graphics =
                          [j \in 1..Len(entry.graphics) |-> ofselected(entry.graphics[j])]],
                      entries, i + 1, ko_membership, color_priority, has_combos,
                      source_combos)

\* _draw_map_kos_membership: the loop over the selected entries from the i-th on,
\* which stops at the first entry that raises: [status, pathway].
RECURSIVE MembershipEntries(_, _, _, _, _, _, _, _)
MembershipEntries(pathway_number, pathway, entries, i, ko_membership, color_priority, has_combos, source_combos) ==
    IF i > Len(entries) THEN [status |-> "ok", pathway |-> pathway]
    ELSE LET entry == pathway[entries[i]]
             source_names == SourceNames(entry.name, ko_membership, 1)
             found == EntryColor(color_priority, has_combos, source_combos,
                                 Range(source_names))
             ofselected(g) == MembershipGraphics(pathway_number, g, found.color)
         IN  IF Len(source_names) = 0
             THEN [status |-> "AssertionError", pathway |-> pathway]
             ELSE IF found.status # "ok" THEN [status |-> found.status, pathway |-> pathway]
             ELSE MembershipEntries(pathway_number,
                      [pathway EXCEPT ![entries[i]].graphics =
                          [j \in 1..Len(entry.graphics) |-> ofselected(entry.graphics[j])]],
                      entries, i + 1, ko_membership, color_priority, has_combos,
                      source_combos)

\* _draw_map_kos_membership: ortholog_color_priority, keyed by (fgcolor, bgcolor).
OrthologColorPriority(pathway_number, color_priority) ==
    [i \in 1..Len(color_priority) |->
        [k |-> IF is_global_map(pathway_number) \/ is_overview_map(pathway_number)
               THEN <<color_priority[i].k, WHITE>> ELSE <<BLACK, color_priority[i].k>>,
         v |-> color_priority[i].v]]

\* A draw that removes an existing file before it colours the entries.
DrawMapKosMembershipRemovingFirst(pathway_number, ko_membership, color_priority, colormap, has_combos, source_combos, exists, overwrite_output, draw_map_lacking_kos) ==
    LET pathway == Kgml(pathway_number)
        entries == SelectEntries(pathway, DOMAIN ko_membership)
        colored == MembershipEntries(pathway_number, pathway, entries, 1, ko_membership,
                                     color_priority, has_combos, source_combos)
        ortholog_color_priority == OrthologColorPriority(pathway_number, color_priority)
    IN  IF entries = << >> /\ ~draw_map_lacking_kos THEN NotDrawn(pathway)
        ELSE IF colored.status # "ok"
             THEN DrawResult(colored.status, FALSE, colored.pathway, entries, NotPrioritized,
                             exists /\ overwrite_output, FALSE)
             ELSE DrawMap(colored.pathway, entries,
                          IF is_global_map(pathway_number)
                          THEN SetColorPriority(ortholog_color_priority, "g", "high", colormap)
                          ELSE IF is_overview_map(pathway_number)
                               THEN SetColorPriority(ortholog_color_priority, "w", "high",
                                                     colormap)
                               ELSE SetColorPriority(ortholog_color_priority, "w", "None",
                                                     NoCmap),
                          exists, overwrite_output)

\* _draw_map_kos_membership
DrawMapKosMembership(pathway_number, ko_membership, color_priority, colormap, has_combos, source_combos, exists, overwrite_output, draw_map_lacking_kos) ==
    LET pathway == Kgml(pathway_number)
        entries == SelectEntries(pathway, DOMAIN ko_membership)
        colored == MembershipEntries(pathway_number, pathway, entries, 1, ko_membership,
                                     color_priority, has_combos, source_combos)
        ortholog_color_priority == OrthologColorPriority(pathway_number, color_priority)
    IN  IF entries = << >> /\ ~draw_map_lacking_kos THEN NotDrawn(pathway)
        ELSE IF colored.status # "ok"
             THEN DrawResult(colored.status, FALSE, colored.pathway, entries, NotPrioritized,
                             FALSE, FALSE)
             ELSE DrawMap(colored.pathway, entries,
                          IF is_global_map(pathway_number)
                          THEN SetColorPriority(ortholog_color_priority, "g", "high", colormap)
                          ELSE IF is_overview_map(pathway_number)
                               THEN SetColorPriority(ortholog_color_priority, "w", "high",
                                                     colormap)
                               ELSE SetColorPriority(ortholog_color_priority, "w", "None",
                                                     NoCmap),
                          exists, overwrite_output)

\* "Find which contigs databases contain each KO": ko_dbs, from the KOs annotated
\* in each contigs database; a KO's list holds the project names in load order.
KoDbs(project_names, kos_of) ==
    [ko_id \in UNION {kos_of[project_names[i]] : i \in 1..Len(project_names)} |->
        SelectSeq(project_names, LAMBDA project_name : ko_id \in kos_of[project_name])]

\* ------------------------------------------------------------------- state
VARIABLES
    color,  \* a colour-table construction: [pc, args, out]
    draw,   \* a draw operation on one pathway map: [pc, args, out]
    run,    \* a mapping run of a Mapper: its arguments, position and results
    files   \* the map files on disk, as paths

vars == <<color, draw, run, files>>

\* The paths of map files: <output_dir>/kos_<map>.pdf, the same in the directory of
\* a source, <output_dir>/<source>/, and in <output_dir>/grid/.
Path(dir, source, pathway_number) ==
    [dir |-> dir, source |-> source, pathway_number |-> pathway_number]
OutPath(pathway_number) == Path("output_dir", 0, pathway_number)
SourcePath(source, pathway_number) == Path("source", source, pathway_number)
GridPath(pathway_number) == Path("grid", 0, pathway_number)

\* The 'pathway_numbers' argument: None, or a list of patterns.
NoPatterns == [given |-> FALSE, list |-> << >>]
Patterns(list) == [given |-> TRUE, list |-> list]

\* The dictionary 'drawn' of a multi-source run.
Drawn(unified, individual, grid) ==
    [unified |-> unified, individual |-> individual, grid |-> grid]
\* What a run returned: nothing yet, None or a dictionary.
Result(type, value) == [type |-> type, value |-> value]
Pending == Result("pending", Drawn(EmptyDict, EmptyDict, EmptyDict))

\* A run of a single source made by a multi-source run: the call of
\* map_contigs_database_kos or map_genomes_storage_genome_kos and its position.
SubRun(pc, source, filler, patterns, pathway_numbers, i, drawn, before, draws) ==
    [pc |-> pc, source |-> source, filler |-> filler, patterns |-> patterns,
     pathway_numbers |-> pathway_numbers, i |-> i, drawn |-> drawn, before |-> before,
     draws |-> draws]
NoSub == SubRun("none", 0, FALSE, NoPatterns, << >>, 1, EmptyDict, {}, 0)

IdleRun == [pc |-> "idle"]

\* ---------------------------------------------- colour-table constructions
\* The insertion orders of n distinct source names.
Orders(n) == {s \in [1..n -> 1..n] : \A i, j \in 1..n : i # j => s[i] # s[j]}

LimitChoices ==
    {NoLimits, Limits(Frac(0, 1), Frac(1, 1)), Limits(Frac(1, 10), Frac(9, 10)),
     Limits(Frac(0, 1), Frac(1, 2))}

PaletteSizes == (1..MaxPalette) \cup {Tab10N, PlasmaN}

ContigsDbsColormaps ==
    {ColormapArg("True", 0), ColormapArg("False", 0)}
    \cup {ColormapArg(kind, n) : kind \in {"str", "Colormap"}, n \in PaletteSizes}

PanColormaps ==
    {ColormapArg("None", 0)}
    \cup {ColormapArg(kind, n) : kind \in {"str", "Colormap"}, n \in PaletteSizes}

ColorArgs(op, names, colormap, colormap_limits, colormap_scheme, reverse_overlay) ==
    [op |-> op, names |-> names, colormap |-> colormap,
     colormap_limits |-> colormap_limits, colormap_scheme |-> colormap_scheme,
     reverse_overlay |-> reverse_overlay]

IdleColor ==
    [pc |-> "idle",
     args |-> ColorArgs("none", << >>, ColormapArg("None", 0), NoLimits, "None", FALSE),
     out |-> NoTable("none", "none", NoCmap)]
NoDraw == DrawResult("none", FALSE, << >>, << >>, NotPrioritized, FALSE, FALSE)
IdleDraw == [pc |-> "idle", out |-> NoDraw]

ColorInit ==
    /\ \E n \in 1..MaxSources, reverse_overlay \in BOOLEAN, limits \in LimitChoices :
       \E names \in Orders(n) :
          \/ \E colormap \in ContigsDbsColormaps,
                colormap_scheme \in {"None", "by_count", "by_database"} :
                color = [pc |-> "called",
                         args |-> ColorArgs("contigs_dbs", names, colormap, limits,
                                            colormap_scheme, reverse_overlay),
                         out |-> NoTable("none", "none", NoCmap)]
          \/ \E colormap \in PanColormaps :
                color = [pc |-> "called",
                         args |-> ColorArgs("pan", names, colormap, limits, "None",
                                            reverse_overlay),
                         out |-> NoTable("none", "none", NoCmap)]
    /\ draw = IdleDraw
    /\ run = IdleRun
    /\ files = {}

\* map_contigs_databases_kos up to its colour table.
SetContigsDbsColors ==
    /\ color.pc = "called"
    /\ color.args.op = "contigs_dbs"
    /\ color' = [color EXCEPT !.pc = "done", !.out = ContigsDbsColors(color.args)]
    /\ UNCHANGED <<draw, run, files>>

\* map_pan_database_kos up to its colour table.
SetPanColors ==
    /\ color.pc = "called"
    /\ color.args.op = "pan"
    /\ color' = [color EXCEPT !.pc = "done", !.out = PanColors(color.args)]
    /\ UNCHANGED <<draw, run, files>>

ColorNext == SetContigsDbsColors \/ SetPanColors

SpecColor == ColorInit /\ [][ColorNext]_vars


\* ---------------------------------------------------------- draw operations
\* The KOs that the sources of the model may be annotated with ("K4" and "C1" are
\* on the maps and in no source).
KoIds == {"K1", "K2", "K3"}

\* The load orders of n sources that the draw operations are explored with.
DrawOrders(n) ==
    {[i \in 1..n |-> i], [i \in 1..n |-> n + 1 - i], [i \in 1..n |-> (i % n) + 1]}

\* The annotations of n sources: which KOs each source holds ("K3" in all or none).
Annotations(n) ==
    {kos_of \in [1..n -> SUBSET KoIds] :
        \A a, b \in 1..n : ("K3" \in kos_of[a]) = ("K3" \in kos_of[b])}

\* out_path before the draw and the Mapper's overwrite_output: a draw operation is
\* only reached after _find_maps, so a file exists only when it may be overwritten.
FileStates ==
    {[exists |-> FALSE, overwrite_output |-> FALSE],
     [exists |-> FALSE, overwrite_output |-> TRUE],
     [exists |-> TRUE, overwrite_output |-> TRUE]}

\* The colour table map_contigs_databases_kos builds with colormap=True.
DefaultTable(names, scheme) ==
    ContigsDbsColors(ColorArgs("contigs_dbs", names, ColormapArg("True", 0), NoLimits,
                               scheme, FALSE))

\* A membership as built by a run ("run"), or handed to _draw_map_kos_membership
\* with an empty list for "K3" ("empty_list").
Membership(via, names, kos_of) ==
    LET ko_dbs == KoDbs(names, kos_of)
    IN  IF via = "empty_list"
        THEN [ko_id \in DOMAIN ko_dbs \cup {"K3"} |->
                 IF ko_id = "K3" THEN << >> ELSE ko_dbs[ko_id]]
        ELSE ko_dbs

\* The combination table as built by a run, or ("partial") one that lists the
\* single sources only.
SourceCombos(via, names, table) ==
    IF via = "partial" THEN Combinations(names, 1) ELSE table.db_combos

DrawArgs(op, via, pathway_number, names, ko_membership, table, source_combos, file, draw_map_lacking_kos) ==
    [op |-> op, via |-> via, pathway_number |-> pathway_number, names |-> names,
     ko_membership |-> ko_membership, table |-> table, source_combos |-> source_combos,
     color_hexcode |-> GREEN, exists |-> file.exists,
     overwrite_output |-> file.overwrite_output,
     draw_map_lacking_kos |-> draw_map_lacking_kos]

DrawInit ==
    /\ color = IdleColor
    /\ run = IdleRun
    /\ files = {}
    /\ \E n \in 1..MaxDrawSources, file \in FileStates, draw_map_lacking_kos \in BOOLEAN,
          i \in 1..Len(available_pathway_numbers) :
       \E names \in DrawOrders(n), kos_of \in Annotations(n) :
          \/ \E op \in {"single_color", "original_color"} :
                draw = [pc |-> "called",
                        args |-> DrawArgs(op, "run", available_pathway_numbers[i], names,
                                          KoDbs(names, kos_of), NoTable("ok", "static", NoCmap),
                                          << >>, file, draw_map_lacking_kos),
                        out |-> NoDraw]
          \/ \E scheme \in {"by_count", "by_database"}, via \in {"run", "empty_list", "partial"} :
                /\ via = "partial" => scheme = "by_database"
                /\ LET table == DefaultTable(names, scheme)
                   IN  /\ table.status = "ok"
                       /\ draw = [pc |-> "called",
                                  args |-> DrawArgs("membership", via,
                                              available_pathway_numbers[i], names,
                                              Membership(via, names, kos_of), table,
                                              SourceCombos(via, names, table), file,
                                              draw_map_lacking_kos),
                                  out |-> NoDraw]

DrawSingleColor ==
    /\ draw.pc = "called"
    /\ draw.args.op = "single_color"
    /\ draw' = [draw EXCEPT !.pc = "done",
                  !.out = DrawMapKosSingleColor(draw.args.pathway_number,
                              DOMAIN draw.args.ko_membership, draw.args.color_hexcode,
                              draw.args.exists, draw.args.overwrite_output,
                              draw.args.draw_map_lacking_kos)]
    /\ UNCHANGED <<color, run, files>>

DrawOriginalColor ==
    /\ draw.pc = "called"
    /\ draw.args.op = "original_color"
    /\ draw' = [draw EXCEPT !.pc = "done",
                  !.out = DrawMapKosOriginalColor(draw.args.pathway_number,
                              DOMAIN draw.args.ko_membership,
                              draw.args.exists, draw.args.overwrite_output,
                              draw.args.draw_map_lacking_kos)]
    /\ UNCHANGED <<color, run, files>>

DrawMembership ==
    /\ draw.pc = "called"
    /\ draw.args.op = "membership"
    /\ draw' = [draw EXCEPT !.pc = "done",
                  !.out = DrawMapKosMembership(draw.args.pathway_number,
                              draw.args.ko_membership, draw.args.table.color_priority,
                              draw.args.table.cmap, draw.args.table.has_combos,
                              draw.args.source_combos,
                              draw.args.exists, draw.args.overwrite_output,
                              draw.args.draw_map_lacking_kos)]
    /\ UNCHANGED <<color, run, files>>

DrawNext == DrawSingleColor \/ DrawOriginalColor \/ DrawMembership

SpecDraw == DrawInit /\ [][DrawNext]_vars

\* ------------------------------------------------------------- mapping runs
MaxRunSources == 2

\* color_hexcode='original'
ORIGINAL == [kind |-> "original", v |-> 0]

\* The characters of a pathway number, which is a string of five digits.
Chars(pathway_number) ==
    IF pathway_number = GlobalMap THEN <<"0", "1", "1", "0", "0">>
    ELSE IF pathway_number = OverviewMap THEN <<"0", "1", "2", "0", "0">>
    ELSE <<"0", "0", "0", "1", "0">>

\* re.match(pattern, available_pathway_number) for a pattern of digits and '.': the
\* pattern is matched at the start of the string and need not reach its end.
ReMatch(pattern, pathway_number) ==
    LET string == Chars(pathway_number)
    IN  /\ Len(pattern) <= Len(string)
        /\ \A c \in 1..Len(pattern) : pattern[c] = "." \/ pattern[c] = string[c]

\* _get_pathway_numbers_from_patterns: the available pathway numbers that match
\* the patterns from the i-th on, one pattern after the other.
RECURSIVE MatchPatterns(_, _)
MatchPatterns(patterns, i) ==
    IF i > Len(patterns) THEN << >>
    ELSE SelectSeq(available_pathway_numbers, LAMBDA n : ReMatch(patterns[i], n))
         \o MatchPatterns(patterns, i + 1)

\* The matches of the patterns with no pathway number taken out.
GetPathwayNumbersRepeated(patterns) == MatchPatterns(patterns, 1)

\* _get_pathway_numbers_from_patterns
GetPathwayNumbersFromPatterns(patterns) == Unique(MatchPatterns(patterns, 1))

\* _find_maps without the check for existing output files.
FindMapsUnchecked(existing, dir, source, patterns, overwrite_output) ==
    [status |-> "ok",
     pathway_numbers |-> IF patterns.given THEN GetPathwayNumbersFromPatterns(patterns.list)
                         ELSE available_pathway_numbers]

\* _find_maps that checks for existing output files whatever overwrite_output is.
FindMapsAlwaysChecked(existing, dir, source, patterns, overwrite_output) ==
    LET pathway_numbers == IF patterns.given THEN GetPathwayNumbersFromPatterns(patterns.list)
                           ELSE available_pathway_numbers
    IN  IF \E i \in 1..Len(pathway_numbers) : Path(dir, source, pathway_numbers[i]) \in existing
        THEN [status |-> "ConfigError", pathway_numbers |-> << >>]
        ELSE [status |-> "ok", pathway_numbers |-> pathway_numbers]

\* _find_maps with prefix 'kos' in a directory that holds the files 'existing':
\* [status, pathway_numbers].
FindMaps(existing, dir, source, patterns, overwrite_output) ==
    LET pathway_numbers == IF patterns.given THEN GetPathwayNumbersFromPatterns(patterns.list)
                           ELSE available_pathway_numbers
    IN  IF /\ ~overwrite_output
           /\ \E i \in 1..Len(pathway_numbers) : Path(dir, source, pathway_numbers[i]) \in existing
        THEN [status |-> "ConfigError", pathway_numbers |-> << >>]
        ELSE [status |-> "ok", pathway_numbers |-> pathway_numbers]

\* The draw of one map with a static colour, by the original colours of the map
\* or by a single colour.
DrawFixedColor(pathway_number, ko_ids, color_hexcode, exists, overwrite_output, draw_map_lacking_kos) ==
    IF color_hexcode = ORIGINAL
    THEN DrawMapKosOriginalColor(pathway_number, ko_ids, exists, overwrite_output,
                                 draw_map_lacking_kos)
    ELSE DrawMapKosSingleColor(pathway_number, ko_ids, color_hexcode, exists,
                               overwrite_output, draw_map_lacking_kos)

\* The arguments 'draw_contigs_db_files', 'draw_genome_files' and 'draw_grid':
\* True, False or a list of source names.
NamesArg(kind, list) == [kind |-> kind, list |-> list]
\* The sources such an argument stands for, without repeats.
DrawNames(arg, names) ==
    IF arg.kind = "True" THEN names
    ELSE IF arg.kind = "False" THEN << >>
    ELSE Unique(arg.list)

RunArgs(names, kos_of, overwrite_output, patterns, color_hexcode, draw_maps_lacking_kos, colormap, draw_files, draw_grid) ==
    [names |-> names, kos_of |-> kos_of, overwrite_output |-> overwrite_output,
     patterns |-> patterns, color_hexcode |-> color_hexcode,
     draw_maps_lacking_kos |-> draw_maps_lacking_kos, colormap |-> colormap,
     draw_files |-> draw_files, draw_grid |-> draw_grid]

\* self.run and self.progress: the reporters the Mapper was constructed with, the
\* silent ones terminal.Run(verbose=False) and terminal.Progress(verbose=False), and
\* the local variables 'run' and 'progress' before their assignment.
GivenReporters == [run |-> "given", progress |-> "given"]
SilentReporters == [run |-> "silent", progress |-> "silent"]
NoReporters == [run |-> "none", progress |-> "none"]

\* "progress = self.progress; self.progress = terminal.Progress(verbose=False);
\* run = self.run; self.run = terminal.Run(verbose=False)"
SilenceReporters(r) == [r EXCEPT !.saved = r.reporters, !.reporters = SilentReporters]

\* A restoration of self.run that leaves the silent self.progress in place.
RestoreRunOnly(r) == [r EXCEPT !.reporters.run = r.saved.run]

\* "self.progress = progress; self.run = run"
RestoreReporters(r) == [r EXCEPT !.reporters = r.saved]

\* A run at its call: kind is "single" (map_contigs_database_kos and
\* map_genomes_storage_genome_kos), "contigs_dbs" (map_contigs_databases_kos) or
\* "pan" (map_pan_database_kos); 'before' and 'draws' record the files at the call
\* and the number of draw operations the run has called for its own maps.
NewRun(kind, args, existing) ==
    [pc |-> "find_maps", kind |-> kind, args |-> args, pathway_numbers |-> << >>,
     table |-> NoTable("none", "none", NoCmap), i |-> 1,
     drawn |-> Drawn(EmptyDict, EmptyDict, EmptyDict),
     draw_names |-> << >>, j |-> 1, fill |-> << >>, k |-> 1, paths_to_remove |-> {},
     sub |-> NoSub, result |-> Pending, error |-> "none", before |-> existing, draws |-> 0,
     reporters |-> GivenReporters, saved |-> NoReporters]

\* The colour arguments of a multi-source run, as the colour tables take them.
RunColorArgs(r) ==
    ColorArgs(r.kind, r.args.names, r.args.colormap, NoLimits, "None", FALSE)

\* The run raises.
Raise(r, error) == [r EXCEPT !.pc = "raised", !.error = error]

\* The KOs of the sources a run may be given: none, or "K1" (which the overview
\* map lacks).
RunAnnotations(n) == [1..n -> {{}, {"K1"}}]

PatternChoices ==
    {NoPatterns, Patterns(<< <<"0", "1", "1">>, <<"0", "0">>, <<"0", "1", "1", "0", "0">> >>)}

\* The map files that exist when the run is called: none or one.
InitialFiles(n) ==
    {{}} \cup {{q} : q \in {OutPath(pn) : pn \in Range(available_pathway_numbers)}
                       \cup {GridPath(pn) : pn \in Range(available_pathway_numbers)}
                       \cup {SourcePath(x, pn) : x \in 1..n,
                                                 pn \in Range(available_pathway_numbers)}}

NamesArgChoices(n) ==
    {NamesArg("True", << >>), NamesArg("False", << >>), NamesArg("list", <<n, n>>)}

Init ==
    /\ color = IdleColor
    /\ draw = IdleDraw
    /\ \E kind \in {"single", "contigs_dbs", "pan"}, n \in 1..MaxRunSources,
          overwrite_output \in BOOLEAN, draw_maps_lacking_kos \in BOOLEAN,
          color_hexcode \in {GREEN, ORIGINAL}, patterns \in PatternChoices :
       \E kos_of \in RunAnnotations(n), existing \in InitialFiles(n),
          colormap \in {ColormapArg("None", 0), ColormapArg("True", 0),
                        ColormapArg("False", 0), ColormapArg("str", PlasmaN)},
          draw_files \in NamesArgChoices(n), draw_grid \in NamesArgChoices(n) :
          /\ kind = "single" => /\ n = 1
                                /\ colormap.kind = "None"
                                /\ draw_files.kind = "False" /\ draw_grid.kind = "False"
          /\ kind = "contigs_dbs" => colormap.kind \in {"True", "False"}
          /\ kind = "pan" => colormap.kind \in {"None", "str"}
          /\ files = existing
          /\ run = NewRun(kind, RunArgs([x \in 1..n |-> x], kos_of, overwrite_output,
                                        patterns, color_hexcode, draw_maps_lacking_kos,
                                        colormap, draw_files, draw_grid),
                          existing)

\* ko_dbs, ko_genomes or the KOs of the single source of a run.
KoMembership(r) == KoDbs(r.args.names, r.args.kos_of)

\* The draw operation a static colour stands for.
FixedColorOp(color_hexcode) ==
    IF color_hexcode = ORIGINAL THEN "original_color" ELSE "single_color"

\* The draw operation as the variable 'draw' holds it.
Recorded(op, pathway_number, names, ko_membership, table, exists, overwrite_output, draw_map_lacking_kos, out) ==
    [pc |-> "done",
     args |-> DrawArgs(op, "run", pathway_number, names, ko_membership, table,
                       table.db_combos,
                       [exists |-> exists, overwrite_output |-> overwrite_output],
                       draw_map_lacking_kos),
     out |-> out]

\* The files after a draw operation on out_path.
AfterDraw(existing, out_path, out) ==
    IF out.wrote THEN existing \cup {out_path}
    ELSE IF out.removed THEN existing \ {out_path}
    ELSE existing

\* A multi-source or single-source run from its call to its first draw: the colormap
\* checks, the consensus KOs of the pan database (loaded with silent reporters),
\* _find_maps and the colour table.
StartRun ==
    /\ run.pc = "find_maps"
    /\ LET loaded == IF run.kind = "pan" THEN RestoreReporters(SilenceReporters(run))
                     ELSE run
           scheme == ContigsDbsScheme(run.args.colormap, "None", Len(run.args.names))
           trim == IF run.kind = "contigs_dbs"
                   THEN Trim(ContigsDbsCmap(run.args.colormap, scheme),
                             ContigsDbsLimits(run.args.colormap, scheme, NoLimits)).status
                   ELSE "ok"
           found == FindMaps(files, "output_dir", 0, run.args.patterns,
                             run.args.overwrite_output)
           table == IF run.kind = "contigs_dbs" THEN ContigsDbsColors(RunColorArgs(run))
                    ELSE IF run.kind = "pan" THEN PanColors(RunColorArgs(run))
                    ELSE NoTable("ok", "static", NoCmap)
       IN  run' = IF trim # "ok" THEN Raise(loaded, trim)
                  ELSE IF found.status # "ok" THEN Raise(loaded, found.status)
                  ELSE IF table.status # "ok"
                       THEN Raise([loaded EXCEPT !.pathway_numbers = found.pathway_numbers],
                                  table.status)
                       ELSE [loaded EXCEPT !.pc = "unified",
                                        !.pathway_numbers = found.pathway_numbers,
                                        !.table = table]
    /\ UNCHANGED <<color, draw, files>>

\* One pass of the loop that draws the maps of the run in output_dir.
DrawUnified ==
    /\ run.pc = "unified"
    /\ run.i <= Len(run.pathway_numbers)
    /\ LET pathway_number == run.pathway_numbers[run.i]
           exists == OutPath(pathway_number) \in files
           ko_membership == KoMembership(run)
           out == IF run.table.scheme = "static"
                  THEN DrawFixedColor(pathway_number, DOMAIN ko_membership,
                                      run.args.color_hexcode, exists,
                                      run.args.overwrite_output,
                                      run.args.draw_maps_lacking_kos)
                  ELSE DrawMapKosMembership(pathway_number, ko_membership,
                                            run.table.color_priority, run.table.cmap,
                                            run.table.has_combos, run.table.db_combos,
                                            exists, run.args.overwrite_output,
                                            run.args.draw_maps_lacking_kos)
       IN  /\ draw' = Recorded(IF run.table.scheme = "static"
                               THEN FixedColorOp(run.args.color_hexcode) ELSE "membership",
                               pathway_number, run.args.names, ko_membership, run.table,
                               exists, run.args.overwrite_output,
                               run.args.draw_maps_lacking_kos, out)
           /\ files' = AfterDraw(files, OutPath(pathway_number), out)
           /\ run' = IF out.status # "ok"
                     THEN Raise([run EXCEPT !.draws = @ + 1], out.status)
                     ELSE [run EXCEPT !.drawn.unified = DictSet(@, pathway_number, out.returned),
                                      !.i = @ + 1, !.draws = @ + 1]
    /\ UNCHANGED color

\* After the maps in output_dir: the return of a single-source run, the return of
\* a multi-source run that draws nothing else, or the sources to draw maps of.
EndUnified ==
    /\ run.pc = "unified"
    /\ run.i > Len(run.pathway_numbers)
    /\ LET named == Range(run.args.draw_files.list) \cup Range(run.args.draw_grid.list)
       IN  run' = IF run.kind = "single"
                  THEN [run EXCEPT !.pc = "returned",
                           !.result = Result("Dict[str, bool]",
                                             Drawn(run.drawn.unified, EmptyDict, EmptyDict))]
                  ELSE IF run.args.draw_files.kind = "False" /\ run.args.draw_grid.kind = "False"
                  THEN [run EXCEPT !.pc = "returned", !.result = Result("None", Pending.value)]
                  ELSE IF ~(named \subseteq Range(run.args.names))
                  THEN Raise(run, "AssertionError")
                  ELSE [run EXCEPT !.pc = "individual", !.j = 1,
                           !.draw_names = Unique(DrawNames(run.args.draw_files, run.args.names)
                                                 \o DrawNames(run.args.draw_grid, run.args.names))]
    /\ UNCHANGED <<color, draw, files>>

\* The call of the single-source run of a source: its _find_maps in the directory
\* of the source.
SubRunCall(source, filler, patterns) ==
    LET found == FindMaps(files, "source", source, patterns, run.args.overwrite_output)
    IN  IF found.status # "ok"
        THEN Raise([run EXCEPT !.sub = SubRun("raised", source, filler, patterns, << >>, 1,
                                              EmptyDict, files, 0)],
                   found.status)
        ELSE [run EXCEPT !.sub = SubRun("drawing", source, filler, patterns,
                                        found.pathway_numbers, 1, EmptyDict, files, 0)]

\* "Draw individual database maps needed as final outputs or for grids": the call
\* for the next source.
CallSubRun ==
    /\ run.pc = "individual"
    /\ run.sub.pc = "none"
    /\ run.j <= Len(run.draw_names)
    /\ run' = SilenceReporters(SubRunCall(run.draw_names[run.j], FALSE, Patterns([i \in 1..Len(run.pathway_numbers) |-> Chars(run.pathway_numbers[i])])))
    /\ UNCHANGED <<color, draw, files>>

\* One pass of the loop of _map_kos_fixed_colors in the run of a source.
DrawSubRun ==
    /\ run.pc \in {"individual", "fill"}
    /\ run.sub.pc = "drawing"
    /\ run.sub.i <= Len(run.sub.pathway_numbers)
    /\ LET source == run.sub.source
           pathway_number == run.sub.pathway_numbers[run.sub.i]
           exists == SourcePath(source, pathway_number) \in files
           lacking == IF run.sub.filler THEN TRUE ELSE run.args.draw_maps_lacking_kos
           out == DrawFixedColor(pathway_number, run.args.kos_of[source],
                                 run.args.color_hexcode, exists, run.args.overwrite_output,
                                 lacking)
       IN  /\ draw' = Recorded(FixedColorOp(run.args.color_hexcode), pathway_number,
                               <<source>>, KoDbs(<<source>>, run.args.kos_of),
                               NoTable("ok", "static", NoCmap), exists,
                               run.args.overwrite_output, lacking, out)
           /\ files' = AfterDraw(files, SourcePath(source, pathway_number), out)
           /\ run' = IF out.status # "ok"
                     THEN Raise([run EXCEPT !.sub.pc = "raised", !.sub.draws = @ + 1],
                                out.status)
                     ELSE [run EXCEPT !.sub.drawn = DictSet(@, pathway_number, out.returned),
                                      !.sub.i = @ + 1, !.sub.draws = @ + 1]
    /\ UNCHANGED color

\* The return of the run of a source: its dictionary goes to drawn['individual'],
\* the file of a map drawn to fill a grid goes to paths_to_remove.
ReturnSubRun ==
    /\ run.pc \in {"individual", "fill"}
    /\ run.sub.pc = "drawing"
    /\ run.sub.i > Len(run.sub.pathway_numbers)
    /\ run' = IF run.sub.filler
              THEN [run EXCEPT !.paths_to_remove =
                                   @ \cup {SourcePath(run.sub.source,
                                                      run.fill[run.k].pathway_number)},
                               !.k = @ + 1, !.sub = NoSub]
              ELSE RestoreReporters([run EXCEPT !.drawn.individual =
                                                    DictSet(@, run.sub.source, run.sub.drawn),
                                                !.j = @ + 1, !.sub = NoSub])
    /\ UNCHANGED <<color, draw, files>>

\* "Draw empty maps as needed, for pathways with some but not all maps drawn": the
\* (pathway number, source) pairs in the order of the loops, from the i-th pathway
\* number on. Each dictionary of 'individual' has the pathway numbers of the run as
\* its keys, in their order.
RECURSIVE Fillers(_, _, _)
Fillers(individual, pathway_numbers, i) ==
    IF i > Len(pathway_numbers) THEN << >>
    ELSE LET pathway_number == pathway_numbers[i]
             values == {DictGet(individual[x].v, pathway_number) : x \in 1..Len(individual)}
             lacking == SelectSeq(individual, LAMBDA e : ~DictGet(e.v, pathway_number))
         IN  (IF values = {TRUE, FALSE}
              THEN [x \in 1..Len(lacking) |->
                       [pathway_number |-> pathway_number, source |-> lacking[x].k]]
              ELSE << >>) \o Fillers(individual, pathway_numbers, i + 1)

\* After the maps of the sources: the return of a run without grids, or the maps
\* to draw for the grids, which are drawn with silent reporters.
EndIndividual ==
    /\ run.pc = "individual"
    /\ run.sub.pc = "none"
    /\ run.j > Len(run.draw_names)
    /\ run' = IF run.args.draw_grid.kind = "False"
              THEN [run EXCEPT !.pc = "returned", !.result = Result("None", Pending.value)]
              ELSE IF run.args.draw_maps_lacking_kos
              THEN [run EXCEPT !.pc = "fill", !.k = 1, !.fill = << >>]
              ELSE SilenceReporters(
                       [run EXCEPT !.pc = "fill", !.k = 1,
                                   !.fill = Fillers(run.drawn.individual, run.pathway_numbers, 1)])
    /\ UNCHANGED <<color, draw, files>>

\* The call that draws an empty map of a source for a grid. map_pan_database_kos
\* indexes the list genome_names by the name of the genome.
CallFiller ==
    /\ run.pc = "fill"
    /\ run.sub.pc = "none"
    /\ run.k <= Len(run.fill)
    /\ run' = IF run.kind = "pan" THEN Raise(run, "TypeError")
              ELSE SubRunCall(run.fill[run.k].source, TRUE,
                              Patterns(<<Chars(run.fill[run.k].pathway_number)>>))
    /\ UNCHANGED <<color, draw, files>>

\* drawn['grid']: the pathway numbers of the grids made, in the order of the run.
GridDict(pathway_numbers, made) ==
    LET of == SelectSeq(pathway_numbers, LAMBDA n : n \in made)
    IN  [x \in 1..Len(of) |-> [k |-> of[x], v |-> TRUE]]

\* A removal that leaves the maps drawn to fill the grids in place.
RemoveGridOnlyKeepingFillers(existing, paths_to_remove, only_grid) ==
    {q \in existing : ~(q.dir = "source" /\ q.source \in only_grid)}

\* "Remove individual database maps that were only needed for map grids": os.remove
\* of paths_to_remove, shutil.rmtree of the directories of the sources only_grid.
RemoveGridOnly(existing, paths_to_remove, only_grid) ==
    {q \in existing \ paths_to_remove : ~(q.dir = "source" /\ q.source \in only_grid)}

\* The end of "Draw empty maps as needed", where the reporters are put back, "Draw
\* map grids" and "Remove individual database maps that were only needed for map
\* grids", to the return of the run.
DrawGrids ==
    /\ run.pc = "fill"
    /\ run.sub.pc = "none"
    /\ run.k > Len(run.fill)
    /\ LET grid_names == DrawNames(run.args.draw_grid, run.args.names)
           files_names == DrawNames(run.args.draw_files, run.args.names)
           made == {n \in Range(run.pathway_numbers) :
                       /\ OutPath(n) \in files
                       /\ \A x \in Range(grid_names) : SourcePath(x, n) \in files}
           only_grid == Range(run.draw_names) \ Range(files_names)
           drawn == Drawn(run.drawn.unified,
                          SelectSeq(run.drawn.individual, LAMBDA e : e.k \notin only_grid),
                          GridDict(run.pathway_numbers, made))
           filled == IF run.args.draw_maps_lacking_kos THEN run ELSE RestoreReporters(run)
       IN  /\ files' = RemoveGridOnly(files \cup {GridPath(n) : n \in made},
                                      run.paths_to_remove, only_grid)
           /\ run' = [filled EXCEPT !.pc = "returned", !.drawn = drawn,
                                    !.result = Result("Dict[str, Dict]", drawn)]
    /\ UNCHANGED <<color, draw>>

Next ==
    \/ StartRun
    \/ DrawUnified
    \/ EndUnified
    \/ CallSubRun
    \/ DrawSubRun
    \/ ReturnSubRun
    \/ EndIndividual
    \/ CallFiller
    \/ DrawGrids

Spec == Init /\ [][Next]_vars

\* ------------------------------------------------------------------ claims
ByCountDone == color.pc = "done" /\ color.out.status = "ok" /\ color.out.scheme = "by_count"

\* C4: in by-count mode with N sources, the colour used for an element present in
\* c sources (1 <= c <= N) has priority (c-1)/(N-1), or 1-(c-1)/(N-1) with
\* reverse_overlay (stated as priority * (N-1) = c-1, which also covers N = 1).
C4_CountPriority ==
    ByCountDone =>
        LET N == Len(color.args.names)
        IN  \A c \in 1..N :
              LET e == EntryColor(color.out.color_priority, FALSE, << >>, 1..c)
              IN  /\ e.status = "ok"
                  /\ LET p == DictGet(color.out.color_priority, e.color)
                         q == IF color.args.reverse_overlay THEN FracComplement(p) ELSE p
                     IN  q[1] * (N - 1) = (c - 1) * q[2]


ByDatabaseCalled ==
    /\ color.pc = "done"
    /\ color.out.scheme = "by_database"
    /\ color.out.status \in {"ok", "AssertionError"}
    /\ color.out.cmap # NoCmap
    /\ ~(color.out.status = "AssertionError" /\ ~LimitsInOrder(color.args.colormap_limits))
ByDatabaseDone == ByDatabaseCalled /\ color.out.status = "ok"

\* The position of a source in the run's list of sources.
Position(names, x) == CHOOSE i \in 1..Len(names) : names[i] = x
\* a < b in lexicographic order, for two tuples of integers of one length.
LexLess(a, b) ==
    \E i \in 1..Len(a) : a[i] < b[i] /\ \A j \in 1..(i - 1) : a[j] = b[j]
\* The k-th (from 1) of the discrete colours a colormap offers.
DiscreteColorAt(cmap, k) == Rgb2Hex((LinearSegmentedN - 1) * (cmap.lo + k - 1))

\* C5: in by-combination mode the combination table lists every non-empty subset
\* of the sources exactly once, by increasing size and, within a size, in
\* lexicographic order (of the sources' positions in the run's list), and the k-th
\* subset is assigned the k-th colour of the discrete palette.
C5_CombinationTable ==
    ByDatabaseDone =>
        LET names == color.args.names
            combos == color.out.db_combos
            pos(c) == [j \in 1..Len(c) |-> Position(names, c[j])]
        IN  /\ \A s \in (SUBSET Range(names)) \ {{}} :
                 Cardinality({k \in 1..Len(combos) : Range(combos[k]) = s}) = 1
            /\ \A k \in 1..Len(combos) :
                 /\ Range(combos[k]) # {}
                 /\ Len(combos[k]) = Cardinality(Range(combos[k]))
            /\ \A k, l \in 1..Len(combos) :
                 k < l => \/ Len(combos[k]) < Len(combos[l])
                          \/ /\ Len(combos[k]) = Len(combos[l])
                             /\ LexLess(pos(combos[k]), pos(combos[l]))
            /\ \A k \in 1..Len(combos) :
                 LET e == EntryColor(color.out.color_priority, TRUE, combos,
                                     Range(combos[k]))
                 IN  e.status = "ok" /\ e.color = DiscreteColorAt(color.out.cmap, k)

\* C6: in by-combination mode, whenever the number of source combinations exceeds
\* the number of discrete colours of the palette (trimmed or not), the run fails
\* before any colour is assigned.
C6_CapacityError ==
    ByDatabaseCalled =>
        (Len(DbCombos(color.args.names, Len(color.args.names)))
             > DiscreteColors(color.out.cmap)
         => color.out.status = "AssertionError" /\ color.out.color_priority = EmptyDict)

\* C7: in by-combination mode two distinct subsets never receive the same colour,
\* the colour-priority table has as many entries as there are combinations, and
\* that number does not exceed the palette's capacity (its discrete colours).
C7_Injective ==
    ByDatabaseDone =>
        LET combos == color.out.db_combos
            col(k) == EntryColor(color.out.color_priority, TRUE, combos, Range(combos[k]))
        IN  /\ \A k, l \in 1..Len(combos) :
                 k # l => col(k).status = "ok" /\ col(l).status = "ok"
                          /\ col(k).color # col(l).color
            /\ Len(color.out.color_priority) = Len(combos)
            /\ Len(combos) <= DiscreteColors(color.out.cmap)


\* ------------------------------------------------- claims on draw operations
DrawDone == draw.pc = "done"
\* The entries of the drawn map that name one of the selected KOs.
Matching ==
    {i \in 1..Len(Kgml(draw.args.pathway_number)) :
        Range(Kgml(draw.args.pathway_number)[i].name) \cap DOMAIN draw.args.ko_membership # {}}
\* The union of the sources of the selected KOs that entry i names.
SourceUnion(i) ==
    UNION {Range(draw.args.ko_membership[ko_id]) :
              ko_id \in Range(Kgml(draw.args.pathway_number)[i].name)
                            \cap DOMAIN draw.args.ko_membership}
\* The colours with which the operation highlights entries.
HighlightColors ==
    IF draw.args.op = "single_color" THEN {draw.args.color_hexcode}
    ELSE IF draw.args.op = "membership" THEN Range(DictKeys(draw.args.table.color_priority))
    ELSE {}
AllGraphics(pathway) ==
    UNION {Range(pathway[i].graphics) : i \in 1..Len(pathway)}

\* C2: when no entry of the map matches the selected KOs, a draw operation with
\* draw_map_lacking_kos False returns False, leaves every graphics attribute as
\* loaded and writes no file; with draw_map_lacking_kos True it writes the file,
\* gives no entry a highlight colour and returns True.
C2_MapLackingKos ==
    (DrawDone /\ Matching = {}) =>
        /\ draw.out.status = "ok"
        /\ ~draw.args.draw_map_lacking_kos =>
              /\ draw.out.returned = FALSE
              /\ draw.out.pathway = Kgml(draw.args.pathway_number)
              /\ ~draw.out.wrote /\ ~draw.out.removed /\ ~draw.out.priority.called
        /\ draw.args.draw_map_lacking_kos =>
              /\ draw.out.returned = TRUE
              /\ draw.out.wrote
              /\ \A g \in AllGraphics(draw.out.pathway) :
                    /\ g.fgcolor \notin HighlightColors
                    /\ g.bgcolor \notin HighlightColors
                    /\ <<g.fgcolor, g.bgcolor>>
                          \notin Range(DictKeys(draw.out.priority.color_priority))
                    /\ g.width = 1

C2_Witness ==
    /\ DrawDone /\ Matching = {} /\ draw.args.draw_map_lacking_kos
    /\ draw.args.op = "membership" /\ draw.out.wrote


MembershipDone == DrawDone /\ draw.args.op = "membership"
Colored == DrawDone /\ draw.out.status = "ok" /\ draw.out.returned
\* The colour that highlights a Graphics element: its line (foreground) on global
\* and overview maps, the fill of its box (background) on standard maps.
HighlightOf(g) ==
    IF is_global_map(draw.args.pathway_number) \/ is_overview_map(draw.args.pathway_number)
    THEN g.fgcolor ELSE g.bgcolor
\* The table position (from 1) that the claim gives the union u of sources: its
\* size in count mode, the place of the combination equal to u in combination
\* mode (0 when the table does not list u).
TablePosition(u) ==
    IF ~draw.args.table.has_combos THEN Cardinality(u)
    ELSE IF \E k \in 1..Len(draw.args.source_combos) : Range(draw.args.source_combos[k]) = u
         THEN CHOOSE k \in 1..Len(draw.args.source_combos) :
                  Range(draw.args.source_combos[k]) = u
         ELSE 0

\* C8: in membership colouring a selected entry's colour is determined by the union
\* U of the sources of all KOs the entry names: the table colour at index |U|-1 in
\* count mode, at the index of U in the combination table in combination mode
\* (index 4 for sources A, B, C and U = {A, C}); a union that the combination table
\* does not list aborts the draw with an error.
C8_MembershipColor ==
    MembershipDone =>
        /\ Colored =>
              \A i \in Matching :
                 \A g \in Range(draw.out.pathway[i].graphics) :
                    /\ TablePosition(SourceUnion(i)) \in 1..Len(draw.args.table.color_priority)
                    /\ HighlightOf(g)
                         = draw.args.table.color_priority[TablePosition(SourceUnion(i))].k
                    /\ (draw.args.table.has_combos /\ draw.args.names = <<1, 2, 3>>
                        /\ SourceUnion(i) = {1, 3} /\ draw.args.via = "run")
                       => HighlightOf(g) = Rgb2Hex(CmapInt(draw.args.table.cmap, 4))
        /\ (/\ draw.args.table.has_combos
            /\ Matching # {}
            /\ \E i \in Matching : SourceUnion(i) # {} /\ TablePosition(SourceUnion(i)) = 0)
           => /\ draw.out.status \in {"KeyError", "AssertionError"}
              /\ ~draw.out.wrote /\ ~draw.out.removed

C8_Witness ==
    /\ MembershipDone /\ Colored /\ draw.args.table.has_combos /\ draw.args.via = "run"
    /\ draw.args.names = <<1, 2, 3>>
    /\ \E i \in Matching : SourceUnion(i) = {1, 3}

\* C9: in membership colouring every selected entry of a run has a non-empty union
\* of contributing sources; a selected entry with an empty union makes the draw
\* fail before any graphics of that entry is coloured and before any file is
\* written, and an entry is only ever coloured from the colour table.
C9_EmptyUnion ==
    MembershipDone =>
        /\ draw.args.via = "run" => \A i \in Matching : SourceUnion(i) # {}
        /\ (\E i \in Matching : SourceUnion(i) = {}) =>
              /\ draw.out.status = "AssertionError"
              /\ ~draw.out.wrote /\ ~draw.out.removed /\ ~draw.out.priority.called
              /\ \A i \in Matching :
                    SourceUnion(i) = {}
                    => draw.out.pathway[i] = Kgml(draw.args.pathway_number)[i]
        /\ \A i \in Matching :
              draw.out.pathway[i] # Kgml(draw.args.pathway_number)[i]
              => \A g \in Range(draw.out.pathway[i].graphics) :
                    HighlightOf(g) \in Range(DictKeys(draw.args.table.color_priority))

C9_Witness ==
    /\ MembershipDone /\ draw.args.via = "empty_list"
    /\ draw.out.status = "AssertionError"
    /\ \E i \in Matching : draw.out.pathway[i] # Kgml(draw.args.pathway_number)[i]

\* The colour c with which a draw operation colours entry i's Graphics element j:
\* the given colour (single colour), the table colour of the entry's sources
\* (membership), the element's own colour in the reference map (original colour).
ColorOf(i, j) ==
    IF draw.args.op = "single_color" THEN draw.args.color_hexcode
    ELSE IF draw.args.op = "membership"
         THEN draw.args.table.color_priority[TablePosition(SourceUnion(i))].k
         ELSE HighlightOf(Kgml(draw.args.pathway_number)[i].graphics[j])

\* C10: after a draw operation that colours a map, every graphics element of every
\* selected entry has, with c the colour of the entry: on a global map foreground c
\* and background white; on an overview map foreground c, background white and
\* width 5.0; on a standard map foreground black and background c.
C10_SelectedGraphics ==
    Colored =>
        \A i \in Matching :
           \A j \in 1..Len(draw.out.pathway[i].graphics) :
              LET g == draw.out.pathway[i].graphics[j]
                  c == ColorOf(i, j)
              IN  IF is_global_map(draw.args.pathway_number)
                  THEN g.fgcolor = c /\ g.bgcolor = WHITE
                  ELSE IF is_overview_map(draw.args.pathway_number)
                       THEN g.fgcolor = c /\ g.bgcolor = WHITE /\ g.width = 5
                       ELSE g.fgcolor = BLACK /\ g.bgcolor = c

C10_Witness ==
    /\ Colored /\ Matching # {} /\ is_overview_map(draw.args.pathway_number)
    /\ draw.args.op = "single_color"


\* -------------------------------------------------------- claims on mapping runs
\* The maps a run is to draw: the available maps its patterns name.
Targets(patterns) ==
    {n \in Range(available_pathway_numbers) :
        patterns.given => \E i \in 1..Len(patterns.list) : ReMatch(patterns.list[i], n)}
\* A target file of the run existed in output_dir when the run was called.
RunTargetExisted == \E n \in Targets(run.args.patterns) : OutPath(n) \in run.before
\* A target file of the run of a source existed in the directory of the source
\* when that run was called.
SubTargetExisted ==
    \E n \in Targets(run.sub.patterns) : SourcePath(run.sub.source, n) \in run.sub.before
\* The files in the directory of a source.
FilesOf(existing, source) == {q \in existing : q.dir = "source" /\ q.source = source}

\* C1: with overwrite_output False, a run (of a single source, of contigs databases
\* or of a pangenome, and each run of a source that those make) for which a target
\* file kos_<map>.pdf exists in its output directory raises the error of _find_maps
\* before it calls a draw operation, and leaves the files of its directory as
\* they were.
C1_OutputExists ==
    ~run.args.overwrite_output =>
        /\ (RunTargetExisted /\ run.pc # "find_maps") =>
              /\ run.pc = "raised" /\ run.error = "ConfigError"
              /\ run.draws = 0
              /\ draw = IdleDraw
              /\ files = run.before
        /\ (run.sub.pc # "none" /\ SubTargetExisted) =>
              /\ run.pc = "raised" /\ run.error = "ConfigError"
              /\ run.sub.pc = "raised"
              /\ run.sub.draws = 0
              /\ FilesOf(files, run.sub.source) = FilesOf(run.sub.before, run.sub.source)

C1_Witness ==
    /\ ~run.args.overwrite_output
    /\ run.kind = "contigs_dbs"
    /\ run.sub.pc = "raised" /\ SubTargetExisted
    /\ run.draws > 0

\* Every draw operation of a run is called with an out_path that does not exist or
\* that the Mapper may overwrite.
DrawsAfterFindMaps ==
    draw.pc = "done" => (draw.args.exists => draw.args.overwrite_output)

\* C3: map_contigs_databases_kos and map_pan_database_kos return, whatever the
\* draw_*_files and draw_grid arguments, a dictionary with the keys 'unified',
\* 'individual' and 'grid' whose 'unified' value has one boolean per target
\* pathway number.
C3_ReturnsDrawn ==
    (run.pc = "returned" /\ run.kind \in {"contigs_dbs", "pan"}) =>
        /\ run.result.type = "Dict[str, Dict]"
        /\ DOMAIN run.result.value = {"unified", "individual", "grid"}
        /\ {e.k : e \in Range(run.result.value.unified)} = Targets(run.args.patterns)
        /\ Len(run.result.value.unified) = Cardinality(Targets(run.args.patterns))
        /\ \A e \in Range(run.result.value.unified) : e.v \in BOOLEAN

\* What does hold of the return value: a run that draws grids returns the dictionary.
ReturnsDrawnWithGrid ==
    (run.pc = "returned" /\ run.kind \in {"contigs_dbs", "pan"}
     /\ run.args.draw_grid.kind # "False") =>
        /\ run.result.type = "Dict[str, Dict]"
        /\ {e.k : e \in Range(run.result.value.unified)} = Targets(run.args.patterns)
        /\ Len(run.result.value.unified) = Cardinality(Targets(run.args.patterns))
        /\ \A e \in Range(run.result.value.unified) : e.v \in BOOLEAN

\* The ortholog entries of the drawn map that name none of the selected KOs.
Unselected == OrthologEntries(Kgml(draw.args.pathway_number)) \ Matching

\* C11: in every colouring mode and on every kind of map, a draw operation that
\* colours a map sets the foreground of every graphics of every ortholog entry that
\* is not selected to the no-match marker before it sets the priorities, so that
\* no such entry carries a colour pair of the priority map.
C11_UnselectedMarked ==
    Colored =>
        \A i \in Unselected :
           \A g \in Range(draw.out.pathway[i].graphics) :
              /\ g.fgcolor = NONSENSE
              /\ <<g.fgcolor, g.bgcolor>> \notin Range(DictKeys(draw.out.priority.color_priority))

\* What does hold: the single-colour and original-colour operations mark the
\* entries that are not selected.
UnselectedMarkedFixedColor ==
    (Colored /\ draw.args.op # "membership") =>
        \A i \in Unselected :
           \A g \in Range(draw.out.pathway[i].graphics) : g.fgcolor = NONSENSE

\* The draw operation went on to set the priorities and draw the map.
Drew == DrawDone /\ draw.out.status = "ok" /\ draw.out.returned

\* C12: every draw operation asks set_color_priority to recolour the entries that
\* are not prioritized green ('g') on a global map and white ('w') on an overview
\* or standard map, and to colour the associated compounds by their reaction of
\* highest priority on global and overview maps and not on standard maps.
C12_BackgroundPolicy ==
    Drew =>
        /\ draw.out.priority.called
        /\ draw.out.priority.recolor_unprioritized_entries
             = (IF is_global_map(draw.args.pathway_number) THEN "g" ELSE "w")
        /\ draw.out.priority.color_associated_compounds
             = (IF is_global_map(draw.args.pathway_number)
                   \/ is_overview_map(draw.args.pathway_number)
                THEN "high" ELSE "None")

C12_Witness ==
    /\ Drew /\ is_global_map(draw.args.pathway_number)
    /\ draw.args.op = "single_color"
    /\ draw.out.priority.recolor_unprioritized_entries = "g"

\* The (foreground, background) pair of graphics j of entry i of the drawn map.
PairAt(i, j) ==
    <<draw.out.pathway[i].graphics[j].fgcolor, draw.out.pathway[i].graphics[j].bgcolor>>
\* The places (entry, graphics) of the selected entries, and their file order.
SelectedPlaces ==
    UNION {{<<i, j>> : j \in 1..Len(draw.out.pathway[i].graphics)} : i \in Matching}
Earlier(p, q) == p[1] < q[1] \/ (p[1] = q[1] /\ p[2] < q[2])
\* Pair a is first seen before pair b among the selected entries.
FirstSeenBefore(a, b) ==
    \E p \in SelectedPlaces :
       /\ PairAt(p[1], p[2]) = a
       /\ \A q \in SelectedPlaces : PairAt(q[1], q[2]) = b => Earlier(p, q)

\* C13: in original-scheme colouring the priority map holds the distinct
\* (foreground, background) pairs of the selected entries, with priorities that
\* increase strictly in the order in which the pairs first appear in the map; all
\* priorities are greater than 0 and the last is 1.
C13_OriginalPriority ==
    (Drew /\ draw.args.op = "original_color") =>
        LET cp == draw.out.priority.color_priority
        IN  /\ {cp[x].k : x \in 1..Len(cp)}
                 = {PairAt(p[1], p[2]) : p \in SelectedPlaces}
            /\ \A x, y \in 1..Len(cp) :
                  x < y => /\ cp[x].k # cp[y].k
                           /\ FirstSeenBefore(cp[x].k, cp[y].k)
                           /\ FracLt(cp[x].v, cp[y].v)
            /\ \A x \in 1..Len(cp) : FracLt(Frac(0, 1), cp[x].v)
            /\ Len(cp) > 0 => FracEq(cp[Len(cp)].v, Frac(1, 1))

C13_Witness ==
    /\ Drew /\ draw.args.op = "original_color"
    /\ is_global_map(draw.args.pathway_number)
    /\ Len(draw.out.priority.color_priority) = 2
    /\ Cardinality(Matching) = 3

\* C14: in single-colour mode the priority map passed to the pathway has exactly
\* one entry, of priority 1.0, keyed by (colour, white) on global and overview maps
\* and by (black, colour) on standard maps, and that key is the colour pair of
\* every graphics of every selected entry.
C14_SinglePriority ==
    (Drew /\ draw.args.op = "single_color") =>
        LET cp == draw.out.priority.color_priority
            c == draw.args.color_hexcode
        IN  /\ Len(cp) = 1
            /\ FracEq(cp[1].v, Frac(1, 1))
            /\ cp[1].k = (IF is_global_map(draw.args.pathway_number)
                             \/ is_overview_map(draw.args.pathway_number)
                          THEN <<c, WHITE>> ELSE <<BLACK, c>>)
            /\ \A p \in SelectedPlaces : PairAt(p[1], p[2]) = cp[1].k

C14_Witness ==
    /\ Drew /\ draw.args.op = "single_color"
    /\ draw.args.pathway_number = StandardMap
    /\ Matching # {}
    /\ draw.out.priority.color_priority[1].k = <<BLACK, GREEN>>

\* A priority between 0 and 1, ends included.
InUnitInterval(p) == FracLe(Frac(0, 1), p) /\ FracLe(p, Frac(1, 1))

\* C15: for every number of sources, with or without reverse_overlay, every
\* priority of the colour-priority map that a by-count or by-combination run
\* builds lies in the closed interval [0, 1].
C15_PriorityRange ==
    color.pc = "done" =>
        \A x \in 1..Len(color.out.color_priority) :
           InUnitInterval(color.out.color_priority[x].v)

C15_Witness ==
    /\ color.pc = "done" /\ color.out.status = "ok"
    /\ color.out.scheme = "by_database"
    /\ color.args.reverse_overlay
    /\ Len(color.args.names) = 3
    /\ Len(color.out.color_priority) = 7

\* The same of the priority map that a draw operation passes to the pathway, in
\* single-colour, original-colour and membership colouring.
DrawPriorityRange ==
    Drew =>
        \A x \in 1..Len(draw.out.priority.color_priority) :
           InUnitInterval(draw.out.priority.color_priority[x].v)

ContigsDbsDone == color.pc = "done" /\ color.args.op = "contigs_dbs"

\* C16: the colouring scheme of map_contigs_databases_kos is static whenever
\* colormap is False; otherwise the colormap_scheme given; otherwise by_database
\* with fewer than 4 databases and by_count with 4 or more.
C16_Scheme ==
    ContigsDbsDone =>
        color.out.scheme =
            (IF color.args.colormap.kind = "False" THEN "static"
             ELSE IF color.args.colormap_scheme # "None" THEN color.args.colormap_scheme
             ELSE IF Len(color.args.names) < 4 THEN "by_database"
             ELSE "by_count")

C16_Witness ==
    /\ ContigsDbsDone
    /\ color.args.colormap.kind = "True" /\ color.args.colormap_scheme = "None"
    /\ Len(color.args.names) = 4
    /\ color.out.scheme = "by_count" /\ color.out.status = "ok"

\* The colormap that a colour table is cut from, before colormap_limits apply.
BaseCmap ==
    IF color.args.op = "pan" THEN PanCmap(color.args.colormap)
    ELSE ContigsDbsCmap(color.args.colormap, color.out.scheme)

\* A call that gives no colormap_limits and colours by a colormap.
NoLimitsGiven ==
    /\ color.pc = "done"
    /\ ~color.args.colormap_limits.given
    /\ color.out.scheme # "static"

\* The range the palette is to be sampled over when no limits are given.
DefaultLimits ==
    IF color.out.scheme = "by_count"
    THEN Limits(Frac(1, 10), Frac(9, 10)) ELSE Limits(Frac(0, 1), Frac(1, 1))

\* C17: when no colormap_limits are given, the colour table is made from the
\* palette cut to (0.1, 0.9) when the colours stand for counts and from the whole
\* palette otherwise, in map_contigs_databases_kos and map_pan_database_kos alike
\* and for a default, a named and a caller-supplied colormap.
C17_DefaultLimits ==
    NoLimitsGiven =>
        LET trim == Trim(BaseCmap, DefaultLimits)
        IN  trim.status = "ok" => color.out.cmap = trim.cmap

\* What does hold: the default colormap of map_contigs_databases_kos and a named
\* colormap of map_pan_database_kos are cut to the default range of their scheme.
DefaultLimitsWhereSet ==
    /\ NoLimitsGiven
    /\ \/ color.args.op = "contigs_dbs" /\ color.args.colormap.kind = "True"
       \/ color.args.op = "pan" /\ color.args.colormap.kind = "str"
    => color.out.cmap = Trim(BaseCmap, DefaultLimits).cmap

\* ------------------------------------------------------------ finding the maps
\* _find_maps as a function of its patterns, of overwrite_output and of the files
\* in the output directory.
MaxPatterns == 2

\* The patterns a caller may give: the empty pattern, prefixes of pathway numbers,
\* a whole pathway number, a pattern with a wildcard and the number of a map that
\* is not available.
PatternPool ==
    {<< >>, <<"0", "0">>, <<"0", "1">>, <<"0", "1", "1", "0", "0">>, <<"0", ".", "2">>,
     <<"0", "0", "0", "2", "0">>}

PatternLists == UNION {[1..k -> PatternPool] : k \in 0..MaxPatterns}

FindInit ==
    /\ color = IdleColor
    /\ draw = IdleDraw
    /\ \E patterns \in {NoPatterns} \cup {Patterns(list) : list \in PatternLists},
          overwrite_output \in BOOLEAN :
          run = [pc |-> "called", patterns |-> patterns,
                 overwrite_output |-> overwrite_output,
                 found |-> [status |-> "none", pathway_numbers |-> << >>]]
    /\ files \in {{}} \cup {{OutPath(pn)} : pn \in Range(available_pathway_numbers)}

\* The call _find_maps(output_dir, 'kos', patterns).
FindMapsCall ==
    /\ run.pc = "called"
    /\ run' = [run EXCEPT !.pc = "returned",
                          !.found = FindMaps(files, "output_dir", 0, run.patterns,
                                             run.overwrite_output)]
    /\ UNCHANGED <<color, draw, files>>

FindNext == FindMapsCall

SpecFind == FindInit /\ [][FindNext]_vars

Found == run.pc = "returned" /\ run.found.status = "ok"
\* The first pattern that matches an available pathway number, and the position of
\* the number in the list of available numbers.
FirstPattern(n) ==
    CHOOSE i \in 1..Len(run.patterns.list) :
        /\ ReMatch(run.patterns.list[i], n)
        /\ \A j \in 1..(i - 1) : ~ReMatch(run.patterns.list[j], n)
AvailableAt(n) == CHOOSE i \in 1..Len(available_pathway_numbers) : available_pathway_numbers[i] = n

\* C18: _find_maps returns all available pathway numbers when no patterns are
\* given; otherwise exactly the available numbers that some pattern matches, each
\* once, in the order of the first pattern that matches them and then of the
\* available list; it never returns a number that is not available.
C18_MapList ==
    Found =>
        LET out == run.found.pathway_numbers
        IN  /\ Range(out) \subseteq Range(available_pathway_numbers)
            /\ ~run.patterns.given => out = available_pathway_numbers
            /\ run.patterns.given =>
                /\ Range(out) = {n \in Range(available_pathway_numbers) :
                                    \E i \in 1..Len(run.patterns.list) :
                                        ReMatch(run.patterns.list[i], n)}
                /\ Len(out) = Cardinality(Range(out))
                /\ \A a, b \in 1..Len(out) :
                      a < b =>
                          \/ FirstPattern(out[a]) < FirstPattern(out[b])
                          \/ /\ FirstPattern(out[a]) = FirstPattern(out[b])
                             /\ AvailableAt(out[a]) < AvailableAt(out[b])

\* Two patterns that match the same number, the first of which does not match the
\* first available number.
C18_Witness ==
    /\ Found
    /\ run.patterns.given
    /\ Len(run.found.pathway_numbers) = Len(available_pathway_numbers)
    /\ run.found.pathway_numbers # available_pathway_numbers
    /\ Len(MatchPatterns(run.patterns.list, 1)) > Len(run.found.pathway_numbers)

\* --------------------------------------------------------------- grid layout
\* _make_grid as a function of the number of its input documents.
MaxDocs == 16

\* math.ceil(math.sqrt(n)) of a positive integer.
CeilSqrt(n) == CHOOSE c \in 1..n : c * c >= n /\ (c - 1) * (c - 1) < n

\* A number of rows that is rounded down.
GridRowsFloor(n, cols) == n \div cols

\* _make_grid: cols = math.ceil(math.sqrt(len(in_paths)))
GridCols(n) == CeilSqrt(n)
\* _make_grid: rows = math.ceil(len(in_paths) / cols)
GridRows(n, cols) == (n + cols - 1) \div cols

\* The cell of the document at 0-based position i: row = i // cols, col = i % cols.
GridCell(i, cols) == [row |-> i \div cols, col |-> i % cols]

GridInit ==
    /\ color = IdleColor
    /\ draw = IdleDraw
    /\ \E n \in 1..MaxDocs :
          run = [pc |-> "called", n |-> n, cols |-> 0, rows |-> 0, i |-> 0, cells |-> << >>]
    /\ files = {}

\* "Find the number of rows and columns in the grid."
GridLayout ==
    /\ run.pc = "called"
    /\ run' = [run EXCEPT !.pc = "placing",
                          !.cols = GridCols(run.n),
                          !.rows = GridRows(run.n, GridCols(run.n))]
    /\ UNCHANGED <<color, draw, files>>

\* "Loop through input PDF files, placing them in the grid": one turn of the loop.
PlaceDocument ==
    /\ run.pc = "placing"
    /\ run.i < run.n
    /\ run' = [run EXCEPT !.cells = Append(run.cells, GridCell(run.i, run.cols)),
                          !.i = run.i + 1]
    /\ UNCHANGED <<color, draw, files>>

\* output_doc.save(out_path)
SaveGrid ==
    /\ run.pc = "placing"
    /\ run.i = run.n
    /\ run' = [run EXCEPT !.pc = "saved"]
    /\ files' = files \cup {GridPath(StandardMap)}
    /\ UNCHANGED <<color, draw>>

GridNext == GridLayout \/ PlaceDocument \/ SaveGrid

SpecGrid == GridInit /\ [][GridNext]_vars

\* C19: for n >= 1 input documents _make_grid uses cols = ceil(sqrt(n)) and
\* rows = ceil(n / cols), for which rows * cols >= n > rows * (cols - 1); the
\* document at position i is placed in row i div cols and column i mod cols, no
\* two documents share a cell, and every row is below rows.
C19_GridLayout ==
    run.pc \in {"placing", "saved"} =>
        /\ (run.cols - 1) * (run.cols - 1) < run.n /\ run.n <= run.cols * run.cols
        /\ (run.rows - 1) * run.cols < run.n /\ run.n <= run.rows * run.cols
        /\ run.rows * run.cols >= run.n /\ run.n > run.rows * (run.cols - 1)
        /\ \A k \in 1..Len(run.cells) :
              /\ run.cells[k].row * run.cols + run.cells[k].col = k - 1
              /\ run.cells[k].col < run.cols
              /\ run.cells[k].row < run.rows
        /\ \A k, l \in 1..Len(run.cells) : run.cells[k] = run.cells[l] => k = l

\* A saved grid of more documents than fill its rows: the last row is not full.
C19_Witness ==
    /\ run.pc = "saved"
    /\ Len(run.cells) = run.n
    /\ run.rows > 1 /\ run.cols > 2
    /\ run.n < run.rows * run.cols
    /\ run.cells[run.n].row = run.rows - 1

\* -------------------------------------------------------- claims on map grids
\* A run of several sources that was asked for grids has returned.
GridRunReturned ==
    /\ run.pc = "returned"
    /\ run.kind \in {"contigs_dbs", "pan"}
    /\ run.args.draw_grid.kind # "False"

\* The grid of a pathway was made: the file is there and drawn['grid'] records it.
GridMade(pathway_number) ==
    /\ GridPath(pathway_number) \in files
    /\ \E g \in Range(run.result.value.grid) : g.k = pathway_number /\ g.v

\* C20: a run with draw_grid not False makes the grid file of every pathway whose
\* unified map it drew, whichever sources the grid is to show and whether
\* draw_maps_lacking_kos is True or False.
C20_GridForDrawn ==
    GridRunReturned =>
        \A e \in Range(run.result.value.unified) : e.v => GridMade(e.k)

\* What does hold: with draw_maps_lacking_kos the grid of every drawn unified map
\* is made.
GridForDrawnLackingKos ==
    GridRunReturned /\ run.args.draw_maps_lacking_kos =>
        \A e \in Range(run.result.value.unified) : e.v => GridMade(e.k)

\* ------------------------------------------------ claims on the maps of sources
\* The sources whose maps a grid run draws for its grids only.
OnlyGrid ==
    Range(run.draw_names) \ Range(DrawNames(run.args.draw_files, run.args.names))

C22_GridEntries ==
    GridRunReturned =>
        LET grid == run.result.value.grid
        IN  /\ {g.k : g \in Range(grid)} = Range(run.pathway_numbers)
            /\ Len(grid) = Len(run.pathway_numbers)
            /\ \A g \in Range(grid) : g.v => GridPath(g.k) \in files

\* What does hold: 'grid' has an entry, which is True, for the pathways whose grid
\* was drawn and no entry for the others.
GridEntriesOfDrawn ==
    GridRunReturned =>
        LET grid == run.result.value.grid
        IN  /\ {g.k : g \in Range(grid)} \subseteq Range(run.pathway_numbers)
            /\ Len(grid) = Cardinality({g.k : g \in Range(grid)})
            /\ \A g \in Range(grid) : g.v /\ GridPath(g.k) \in files

\* ------------------------------------------------- runs whose colouring fails
\* Runs of several sources with the inputs that make the colouring of a map fail
\* in the middle of a batch: a caller-supplied colormap of one colour in
\* map_pan_database_kos, sources annotated with different KOs of one map entry, and
\* patterns that put a map without such an entry first.
BatchAnnotations(n) == [1..n -> {{}, {"K1"}, {"K2"}}]

BatchPatterns == {NoPatterns, Patterns(<< <<"0", "1", "2">>, <<"0">> >>)}

BatchInit ==
    /\ color = IdleColor
    /\ draw = IdleDraw
    /\ \E kind \in {"contigs_dbs", "pan"}, n \in 1..MaxRunSources,
          overwrite_output \in BOOLEAN, draw_maps_lacking_kos \in BOOLEAN,
          patterns \in BatchPatterns, draw_sources \in {"True", "False"} :
       \E kos_of \in BatchAnnotations(n),
          existing \in {{}} \cup {{OutPath(pn)} : pn \in Range(available_pathway_numbers)},
          colormap \in {ColormapArg("True", 0), ColormapArg("Colormap", 1),
                        ColormapArg("str", PlasmaN)} :
          /\ kind = "contigs_dbs" => colormap.kind = "True"
          /\ kind = "pan" => colormap.kind \in {"Colormap", "str"}
          /\ files = existing
          /\ run = NewRun(kind, RunArgs([x \in 1..n |-> x], kos_of, overwrite_output,
                                        patterns, GREEN, draw_maps_lacking_kos, colormap,
                                        NamesArg(draw_sources, << >>),
                                        NamesArg(draw_sources, << >>)),
                          existing)

SpecBatch == BatchInit /\ [][Next]_vars

\* The colouring of a map of the batch in output_dir has failed.
ColoringFailed ==
    /\ run.pc = "raised"
    /\ run.sub.pc = "none"
    /\ run.draws > 0
    /\ draw.pc = "done"
    /\ draw.out.status \in {"AssertionError", "IndexError", "KeyError"}

\* A file is as it was when the run was called.
AsBefore(path) == path \in files <=> path \in run.before

\* C23: when the colouring of a map fails, the run has written no file for the
\* map (an existing file is neither removed nor replaced), no later map of the
\* batch is drawn, and the maps drawn before it are left as they were drawn.
C23_FailedColoring ==
    ColoringFailed =>
        /\ ~draw.out.wrote /\ ~draw.out.removed
        /\ \A x \in run.i..Len(run.pathway_numbers) :
              /\ AsBefore(OutPath(run.pathway_numbers[x]))
              /\ \A e \in Range(run.drawn.unified) : e.k # run.pathway_numbers[x]
        /\ \A x \in 1..(run.i - 1) :
              IF DictGet(run.drawn.unified, run.pathway_numbers[x])
              THEN OutPath(run.pathway_numbers[x]) \in files
              ELSE AsBefore(OutPath(run.pathway_numbers[x]))
        /\ ~ENABLED Next

\* The colouring fails on a map whose file exists, after another map was drawn.
C23_Witness ==
    /\ ColoringFailed
    /\ run.i > 1
    /\ DictGet(run.drawn.unified, run.pathway_numbers[1])
    /\ OutPath(run.pathway_numbers[run.i]) \in run.before
    /\ run.i < Len(run.pathway_numbers)

\* ------------------------------------------------------- membership of the KOs
\* ko_dbs and ko_genomes as the loops of the two multi-source operations build them.
MaxClusters == 2

\* ko_dbs[ko_id].append(project_name), or ko_dbs[ko_id] = [project_name] for a new key.
DictAppend(d, key, x) ==
    IF DictHas(d, key) THEN DictSet(d, key, Append(DictGet(d, key), x))
    ELSE DictSet(d, key, <<x>>)

\* The inner loop of "Find which contigs databases contain each KO", over the
\* accessions of one contigs database from the i-th on.
RECURSIVE KoDbsOfProject(_, _, _, _)
KoDbsOfProject(ko_dbs, project_name, ko_ids, i) ==
    IF i > Len(ko_ids) THEN ko_dbs
    ELSE KoDbsOfProject(DictAppend(ko_dbs, ko_ids[i], project_name), project_name, ko_ids, i + 1)

\* "Find which contigs databases contain each KO": the loop over project_names from
\* the p-th on; accessions[project_name] is the column the database returns.
RECURSIVE FindKoDbs(_, _, _, _)
FindKoDbs(ko_dbs, project_names, accessions, p) ==
    IF p > Len(project_names) THEN ko_dbs
    ELSE FindKoDbs(KoDbsOfProject(ko_dbs, project_names[p], accessions[project_names[p]], 1),
                   project_names, accessions, p + 1)

\* The loop over gene_clusters[cluster_id].items() of one consensus cluster, from
\* the g-th genome on: a genome without genes in the cluster is skipped.
RECURSIVE KoGenomesOfCluster(_, _, _)
KoGenomesOfCluster(ko_genomes, cluster, g) ==
    IF g > Len(cluster.gcids) THEN ko_genomes
    ELSE KoGenomesOfCluster(IF cluster.gcids[g] THEN DictAppend(ko_genomes, cluster.ko_id, g)
                            ELSE ko_genomes,
                            cluster, g + 1)

\* The loop over zip(consensus_cluster_ids, consensus_ko_ids), from the c-th on.
RECURSIVE KoGenomesAppended(_, _, _)
KoGenomesAppended(ko_genomes, clusters, c) ==
    IF c > Len(clusters) THEN ko_genomes
    ELSE KoGenomesAppended(KoGenomesOfCluster(ko_genomes, clusters[c], 1), clusters, c + 1)

\* list(set(ko_genome_names)), the set being iterated in the order 'order'.
ListOfSet(ko_genome_names, order) == SelectSeq(order, LAMBDA g : g \in Range(ko_genome_names))

\* ko_genomes with a genome listed once for every cluster of the KO it has genes in.
KoGenomesRepeated(clusters, order) == KoGenomesAppended(EmptyDict, clusters, 1)

\* "For each consensus KO ... find which genomes contribute genes to clusters
\* represented by the KO": ko_genomes.
KoGenomes(clusters, order) ==
    LET appended == KoGenomesAppended(EmptyDict, clusters, 1)
    IN  [i \in 1..Len(appended) |->
            [k |-> appended[i].k, v |-> ListOfSet(appended[i].v, order)]]

\* The column of accessions a contigs database returns with unique=True: KOs in
\* any order, each once.
Accessions == {s \in UNION {[1..k -> KoIds] : k \in 0..Cardinality(KoIds)} :
                  \A i, j \in 1..Len(s) : i # j => s[i] # s[j]}

\* The consensus clusters of a pangenome of n genomes: the KO of each cluster and
\* the genomes that have genes in it.
Clusters(n) ==
    UNION {[1..k -> [ko_id : {"K1", "K2"}, gcids : [1..n -> BOOLEAN]]] : k \in 0..MaxClusters}

MembershipInit ==
    /\ color = IdleColor
    /\ draw = IdleDraw
    /\ files = {}
    /\ \E n \in 1..MaxRunSources :
          \/ \E accessions \in [1..n -> Accessions] :
                run = [pc |-> "called", op |-> "contigs_dbs", n |-> n,
                       accessions |-> accessions, clusters |-> << >>,
                       first |-> EmptyDict, second |-> EmptyDict]
          \/ \E clusters \in Clusters(n) :
                run = [pc |-> "called", op |-> "pan", n |-> n,
                       accessions |-> << >>, clusters |-> clusters,
                       first |-> EmptyDict, second |-> EmptyDict]

\* The membership is built, the first and then a second time from the same input.
BuildKoDbs ==
    /\ run.op = "contigs_dbs"
    /\ run.pc \in {"called", "built"}
    /\ LET ko_dbs == FindKoDbs(EmptyDict, [x \in 1..run.n |-> x], run.accessions, 1)
       IN  run' = IF run.pc = "called" THEN [run EXCEPT !.pc = "built", !.first = ko_dbs]
                  ELSE [run EXCEPT !.pc = "rebuilt", !.second = ko_dbs]
    /\ UNCHANGED <<color, draw, files>>

BuildKoGenomes ==
    /\ run.op = "pan"
    /\ run.pc \in {"called", "built"}
    /\ \E order \in Orders(run.n) :
          LET ko_genomes == KoGenomes(run.clusters, order)
          IN  run' = IF run.pc = "called"
                     THEN [run EXCEPT !.pc = "built", !.first = ko_genomes]
                     ELSE [run EXCEPT !.pc = "rebuilt", !.second = ko_genomes]
    /\ UNCHANGED <<color, draw, files>>

MembershipNext == BuildKoDbs \/ BuildKoGenomes

SpecMembership == MembershipInit /\ [][MembershipNext]_vars

\* The KO was observed in the source: it is among the accessions of the contigs
\* database, or the genome has genes in a consensus cluster of the KO.
Observed(ko_id, source) ==
    IF run.op = "contigs_dbs" THEN ko_id \in Range(run.accessions[source])
    ELSE \E c \in 1..Len(run.clusters) :
            run.clusters[c].ko_id = ko_id /\ run.clusters[c].gcids[source]

\* A membership has one key for each KO observed in a source, and the value of a
\* key lists the sources the KO was observed in, each once.
WellFormedMembership(membership) ==
    /\ \A i, j \in 1..Len(membership) : membership[i].k = membership[j].k => i = j
    /\ {e.k : e \in Range(membership)}
           = {ko_id \in KoIds : \E source \in 1..run.n : Observed(ko_id, source)}
    /\ \A e \in Range(membership) :
          /\ Len(e.v) > 0
          /\ \A i, j \in 1..Len(e.v) : e.v[i] = e.v[j] => i = j
          /\ Range(e.v) = {source \in 1..run.n : Observed(e.k, source)}

\* C24: the membership built by map_contigs_databases_kos or map_pan_database_kos
\* has a key for exactly the KOs observed in at least one source, every value is
\* non-empty, free of duplicates and holds exactly the sources the KO was observed
\* in, and a second build from the same input gives the same keys with the same
\* sets of sources.
C24_Membership ==
    /\ run.pc \in {"built", "rebuilt"} => WellFormedMembership(run.first)
    /\ run.pc = "rebuilt" =>
          /\ WellFormedMembership(run.second)
          /\ {e.k : e \in Range(run.first)} = {e.k : e \in Range(run.second)}
          /\ \A e \in Range(run.first) : Range(e.v) = Range(DictGet(run.second, e.k))

\* Two clusters of one KO with genes of the same genome, built twice with the set
\* of genomes listed in different orders.
C24_Witness ==
    /\ run.pc = "rebuilt"
    /\ run.op = "pan"
    /\ Len(run.clusters) = 2
    /\ run.clusters[1].ko_id = run.clusters[2].ko_id
    /\ \A g \in 1..run.n : run.clusters[1].gcids[g] /\ run.clusters[2].gcids[g]
    /\ run.first # run.second

\* ------------------------------------------------------ claims on overwriting
\* A step in which a draw operation ran.
DrawStep == draw' # draw

MaxProfileDbs == 2

\* The profile database paths a caller may list: three spellings of one file and
\* another file, the working directory being /cwd.
ProfileDbPaths == {"a.db", "./a.db", "/cwd/a.db", "b.db"}
\* The database file a path leads to.
DatabaseAt(p) == IF p = "b.db" THEN "b" ELSE "a"

\* A comparison of the paths as they were given.
AbspathAsGiven(p) == p

\* os.path.abspath(p)
Abspath(p) == IF p = "b.db" THEN "/cwd/b.db" ELSE "/cwd/a.db"

\* Inversions.sanity_check: its outcome, with the check that raised.
SanityCheck(contigs_db_ok, compatible, profile_db_paths, variant) ==
    LET bad_profile_dbs == SelectSeq(profile_db_paths,
                                     LAMBDA p : variant[DatabaseAt(p)] # "inversions")
    IN  IF ~contigs_db_ok THEN [status |-> "ConfigError", check |-> "is_contigs_db"]
        ELSE IF Cardinality({Abspath(profile_db_paths[i]) : i \in 1..Len(profile_db_paths)})
                    # Len(profile_db_paths)
             THEN [status |-> "ConfigError", check |-> "redundant"]
        ELSE IF \E i \in 1..Len(profile_db_paths) : ~compatible[DatabaseAt(profile_db_paths[i])]
             THEN [status |-> "ConfigError", check |-> "compatible"]
        ELSE IF Len(bad_profile_dbs) > 0
             THEN [status |-> "ConfigError", check |-> "variant"]
        ELSE [status |-> "ok", check |-> "none"]

InversionsInit ==
    /\ color = IdleColor
    /\ draw = IdleDraw
    /\ files = {}
    /\ \E contigs_db_ok \in BOOLEAN, compatible \in [{"a", "b"} -> BOOLEAN],
          variant \in [{"a", "b"} -> {"inversions", "unknown"}],
          profile_db_paths \in UNION {[1..k -> ProfileDbPaths] : k \in 0..MaxProfileDbs} :
          run = [pc |-> "called", contigs_db_ok |-> contigs_db_ok, compatible |-> compatible,
                 variant |-> variant, profile_db_paths |-> profile_db_paths,
                 out |-> [status |-> "none", check |-> "none"]]

InversionsSanityCheck ==
    /\ run.pc = "called"
    /\ run' = [run EXCEPT !.pc = "done",
                          !.out = SanityCheck(run.contigs_db_ok, run.compatible,
                                              run.profile_db_paths, run.variant)]
    /\ UNCHANGED <<color, draw, files>>

InversionsNext == InversionsSanityCheck

SpecInversions == InversionsInit /\ [][InversionsNext]_vars

\* Two entries of the list lead to the same database file.
ListedTwice ==
    \E i, j \in 1..Len(run.profile_db_paths) :
        i # j /\ DatabaseAt(run.profile_db_paths[i]) = DatabaseAt(run.profile_db_paths[j])
\* A listed database is not of variant 'inversions'.
WrongVariant ==
    \E i \in 1..Len(run.profile_db_paths) :
        run.variant[DatabaseAt(run.profile_db_paths[i])] # "inversions"

\* C26: sanity_check raises ConfigError when a profile database is listed more
\* than once (the paths being compared as absolute paths) and when a listed
\* profile database is not of variant 'inversions'; it returns without error only
\* when the paths are distinct and every database is of variant 'inversions'.
C26_SanityCheck ==
    run.pc = "done" =>
        /\ ListedTwice => run.out.status = "ConfigError"
        /\ WrongVariant => run.out.status = "ConfigError"
        /\ run.out.status = "ok" => ~ListedTwice /\ ~WrongVariant

\* One database listed under two spellings of its path is found redundant.
C26_Witness ==
    /\ run.pc = "done"
    /\ Len(run.profile_db_paths) = 2
    /\ run.profile_db_paths[1] # run.profile_db_paths[2]
    /\ ListedTwice
    /\ run.out = [status |-> "ConfigError", check |-> "redundant"]

\* ------------------------------------------------------------ Agnostos parser
\* The rows of an Agnostos output file, with the columns gene_callers_id, cl_name
\* and category of the twelve the parser selects; "" is a missing value.
MaxRows == 2

ClNames == {"7", "c7", ""}
Categories == {"K", "GU"}
InputRows ==
    UNION {[1..k -> [gene_callers_id : 1..2, cl_name : ClNames, category : Categories]] :
              k \in 0..MaxRows}

\* pd.read_csv: the dtype of a column from its cells. A column of integers is
\* int64, or float64 when a value is missing; a column with text is object.
ColumnDtype(cells) ==
    IF \E i \in 1..Len(cells) : cells[i] \notin {"7", ""} THEN "object"
    ELSE IF \E i \in 1..Len(cells) : cells[i] = "" THEN "float64"
    ELSE "int64"

\* df.to_csv(..., na_rep='NA'): a cell as it is written.
WrittenCell(dtype, cell) ==
    IF cell = "" THEN "NA"
    ELSE IF dtype = "float64" THEN cell \o ".0"
    ELSE cell

\* The text of a cell as it stands in the input, 'NA' for a missing value.
CellAsRead(cell) == IF cell = "" THEN "NA" ELSE cell

\* df.drop_duplicates(subset=["gene_callers_id"]): the first row of each
\* gene_callers_id, in the order of the file.
FirstOfGene(rows) ==
    LET kept == {i \in 1..Len(rows) :
                    \A j \in 1..(i - 1) : rows[j].gene_callers_id # rows[i].gene_callers_id}
    IN  SelectSeq([i \in 1..Len(rows) |-> [at |-> i, row |-> rows[i]]],
                  LAMBDA e : e.at \in kept)

\* Agnostos.fix_input_file: the rows of the temporary file.
FixInputFile(rows) ==
    LET df == FirstOfGene(rows)
        cl_name == ColumnDtype([i \in 1..Len(rows) |-> rows[i].cl_name])
        category == ColumnDtype([i \in 1..Len(rows) |-> rows[i].category])
    IN  [i \in 1..Len(df) |->
            [gene_callers_id |-> df[i].row.gene_callers_id,
             cl_name |-> WrittenCell(cl_name, df[i].row.cl_name),
             category |-> WrittenCell(category, df[i].row.category)]]

\* Parser.__init__ with indexing_field -1: self.dicts['agnostos_output'], one
\* entry per row of the file, each a dictionary from column name to value.
ParserDicts(temp_rows) ==
    [i \in 1..Len(temp_rows) |->
        [col \in {"gene_callers_id", "cl_name", "category"} |->
            IF col = "gene_callers_id" THEN [int |-> temp_rows[i].gene_callers_id]
            ELSE IF col = "cl_name" THEN [str |-> temp_rows[i].cl_name]
            ELSE [str |-> temp_rows[i].category]]]

\* df[column] = value
SetColumn(record, column, value) ==
    [col \in DOMAIN record \cup {column} |-> IF col = column THEN value ELSE record[col]]
\* df.rename(columns={old: new})
RenameColumn(record, old, new) ==
    IF old \notin DOMAIN record THEN record
    ELSE [col \in (DOMAIN record \ {old}) \cup {new} |->
             IF col = new THEN record[old] ELSE record[col]]

\* Agnostos.get_dict: the records, in the order of the index.
GetDict(dicts) ==
    LET record(d) ==
            RenameColumn(RenameColumn(SetColumn(SetColumn(d, "source", [str |-> "Agnostos"]),
                                                "e_value", [int |-> 0]),
                                      "cl_name", "accession"),
                         "category", "function")
        df == [i \in 1..Len(dicts) |-> record(dicts[i])]
        subset == {"gene_callers_id", "source", "accession", "function"}
        first == {i \in 1..Len(df) :
                     \A j \in 1..(i - 1) : \E col \in subset : df[j][col] # df[i][col]}
    IN  SelectSeq([i \in 1..Len(df) |-> [at |-> i, record |-> df[i]]],
                  LAMBDA e : e.at \in first)

AgnostosInit ==
    /\ color = IdleColor
    /\ draw = IdleDraw
    /\ files = {}
    /\ \E rows \in InputRows :
          run = [pc |-> "called", rows |-> rows, temp |-> << >>, d |-> << >>]

\* Agnostos.__init__: fix_input_file and the parse of the temporary file.
AgnostosFixInputFile ==
    /\ run.pc = "called"
    /\ run' = [run EXCEPT !.pc = "parsed", !.temp = FixInputFile(run.rows)]
    /\ UNCHANGED <<color, draw, files>>

AgnostosGetDict ==
    /\ run.pc = "parsed"
    /\ run' = [run EXCEPT !.pc = "done", !.d = GetDict(ParserDicts(run.temp))]
    /\ UNCHANGED <<color, draw, files>>

AgnostosNext == AgnostosFixInputFile \/ AgnostosGetDict

SpecAgnostos == AgnostosInit /\ [][AgnostosNext]_vars

\* The first row of the input file with the gene_callers_id of a record.
InputRowOf(record) ==
    run.rows[CHOOSE i \in 1..Len(run.rows) :
                /\ run.rows[i].gene_callers_id = record["gene_callers_id"].int
                /\ \A j \in 1..(i - 1) :
                      run.rows[j].gene_callers_id # run.rows[i].gene_callers_id]

\* C27: get_dict returns at most one record per gene_callers_id, that of its first
\* row in the input file; every record has source 'Agnostos', e_value 0, the
\* cl_name of the input as 'accession' and the category of the input as
\* 'function', and no key 'cl_name' or 'category'. (A missing value of the input
\* has nothing to be equal to and is left out.)
C27_AgnostosRecords ==
    run.pc = "done" =>
        /\ \A a, b \in 1..Len(run.d) :
              run.d[a].record["gene_callers_id"] = run.d[b].record["gene_callers_id"] => a = b
        /\ \A a \in 1..Len(run.d) :
              LET record == run.d[a].record
                  row == InputRowOf(record)
              IN  /\ record["source"] = [str |-> "Agnostos"]
                  /\ record["e_value"] = [int |-> 0]
                  /\ "cl_name" \notin DOMAIN record /\ "category" \notin DOMAIN record
                  /\ row.cl_name # "" => record["accession"] = [str |-> row.cl_name]
                  /\ row.category # "" => record["function"] = [str |-> row.category]

\* What does hold: all of it but the equality of 'accession' and cl_name.
AgnostosRecordsButAccession ==
    run.pc = "done" =>
        /\ \A a, b \in 1..Len(run.d) :
              run.d[a].record["gene_callers_id"] = run.d[b].record["gene_callers_id"] => a = b
        /\ {run.d[a].record["gene_callers_id"].int : a \in 1..Len(run.d)}
               = {run.rows[i].gene_callers_id : i \in 1..Len(run.rows)}
        /\ \A a \in 1..Len(run.d) :
              LET record == run.d[a].record
                  row == InputRowOf(record)
              IN  /\ record["source"] = [str |-> "Agnostos"]
                  /\ record["e_value"] = [int |-> 0]
                  /\ DOMAIN record
                         = {"gene_callers_id", "accession", "function", "source", "e_value"}
                  /\ record["function"] = [str |-> CellAsRead(row.category)]
                  /\ ColumnDtype([i \in 1..Len(run.rows) |-> run.rows[i].cl_name]) # "float64"
                         => record["accession"] = [str |-> CellAsRead(row.cl_name)]

\* ------------------------------------------------ claims on the maps for grids
\* A grid run with draw_maps_lacking_kos False.
GridRunNotLackingKos ==
    /\ run.kind \in {"contigs_dbs", "pan"}
    /\ run.args.draw_grid.kind # "False"
    /\ ~run.args.draw_maps_lacking_kos

\* The grids are about to be composed.
BeforeGrids == run.pc = "fill" /\ run.sub.pc = "none" /\ run.k > Len(run.fill)

\* Every pathway with a map for some but not all of the sources has a map file
\* for each source that lacked it.
FilledForGrids ==
    \A n \in Range(run.pathway_numbers) :
        \A drew, lacked \in Range(run.drawn.individual) :
            DictGet(drew.v, n) /\ ~DictGet(lacked.v, n) => SourcePath(lacked.k, n) \in files

\* C28: in a grid run with draw_maps_lacking_kos False, an empty map is drawn, before
\* the grids are composed, for each source that lacked a pathway drawn for another
\* source, and drawing these maps raises no error, in map_contigs_databases_kos and
\* in map_pan_database_kos.
C28_FillersDrawn ==
    GridRunNotLackingKos =>
        /\ Len(run.fill) > 0 => run.pc # "raised"
        /\ BeforeGrids => FilledForGrids

\* What does hold: the same of map_contigs_databases_kos.
FillersDrawnContigsDbs ==
    GridRunNotLackingKos /\ run.kind = "contigs_dbs" =>
        /\ Len(run.fill) > 0 => run.pc # "raised"
        /\ BeforeGrids => FilledForGrids

\* map_contigs_databases_kos is about to compose grids after drawing empty maps.
FillersDrawnContigsDbsReached ==
    /\ GridRunNotLackingKos /\ run.kind = "contigs_dbs"
    /\ BeforeGrids /\ Len(run.fill) > 0

\* ------------------------------------------------- claims on the by-count table
\* The position (from 0) in the colour table at which the colour of an entry whose
\* KOs are in 'count' sources is looked up.
CountPosition(count) == count - 1

\* C29: in by-count mode the colour table has exactly N entries for N sources, the
\* union of the sources of an entry has 1 to N members, the lookup of its colour at
\* position (size of the union - 1) is within the table, and two different counts
\* never resolve to the same position.
C29_CountTable ==
    ByCountDone =>
        LET N == Len(color.args.names)
            table == DictKeys(color.out.color_priority)
        IN  /\ Len(table) = N
            /\ \A source_names \in (SUBSET Range(color.args.names)) \ {{}} :
                  /\ Cardinality(source_names) \in 1..N
                  /\ CountPosition(Cardinality(source_names)) \in 0..(Len(table) - 1)
                  /\ EntryColor(color.out.color_priority, FALSE, << >>, source_names).status
                         = "ok"
            /\ \A c, d \in 1..N : c # d => CountPosition(c) # CountPosition(d)

\* What does hold: the same of a colormap that gives the N sample points N
\* different colours.
CountTableOfDistinctColors ==
    ByCountDone =>
        LET N == Len(color.args.names)
            table == DictKeys(color.out.color_priority)
            sampled == {Rgb2Hex(CmapFloat(color.out.cmap, Linspace(N)[i])) : i \in 1..N}
        IN  Cardinality(sampled) = N =>
                /\ Len(table) = N
                /\ \A source_names \in (SUBSET Range(color.args.names)) \ {{}} :
                      EntryColor(color.out.color_priority, FALSE, << >>, source_names).status
                          = "ok"

\* -------------------------------------------------------- claims on reporters
\* C30: when map_contigs_databases_kos or map_pan_database_kos returns, self.run and
\* self.progress are the reporters of before the call, and every replacement by
\* silent reporters, around the run of a source or the draw of empty maps, is
\* undone before the next step: between the runs of two sources and when the grids
\* are composed the reporters are those of before the call.
C30_ReportersRestored ==
    run.kind \in {"contigs_dbs", "pan"} =>
        /\ run.pc = "returned" => run.reporters = GivenReporters
        /\ run.pc \in {"unified", "individual"} /\ run.sub.pc = "none"
               => run.reporters = GivenReporters
        /\ run.pc \in {"individual", "fill"} /\ run.sub.pc = "drawing"
               => run.reporters = SilentReporters /\ run.saved = GivenReporters

\* A grid run that drew maps of two sources and an empty map has returned.
C30_Witness ==
    /\ GridRunReturned
    /\ Len(run.draw_names) > 1
    /\ Len(run.fill) > 0
    /\ run.saved = GivenReporters
    /\ run.reporters = GivenReporters

====
